---- MODULE Spec2Model ----
(***************************************************************************)
(* systemdcontrol: the service status engine (systemdcontrol.py), the      *)
(* configuration store (config.py) and the curses dashboard                *)
(* (systemdcontrol_tui.py), as a state machine.                            *)
(*                                                                         *)
(* Text is modelled at token level.  A line of tool output is a sequence   *)
(* of tokens; the rendered line joins the tokens with single blanks,       *)
(* except that the token ";" is attached to the token before it ("UTC;").  *)
(* A unit name is a natural number: its rank in lexicographic order, so    *)
(* that sorted() on names is numeric order.  A listing entry 0 is a line   *)
(* of the listing whose first token does not end in ".service".            *)
(***************************************************************************)
EXTENDS Integers, Sequences, FiniteSets, TLC

\* ------------------------------------------------------------------ bounds
NumUnits == 3
MaxListing == 3
MaxTime == 1
MaxLogs == 5
MaxReportLines == 3
MaxKeys == 3
MaxOps == 3

Names == 1..NumUnits

\* ------------------------------------------------------------ option values
None == [some |-> FALSE]
Some(v) == [some |-> TRUE, v |-> v]

\* A call either returns a value or raises a Python exception.
Return(v) == [raised |-> "none", val |-> v]
Raise(e) == [raised |-> e]

Max(a, b) == IF a >= b THEN a ELSE b
Min(a, b) == IF a <= b THEN a ELSE b

SeqToSet(s) == {s[i] : i \in 1..Len(s)}

IsPrefix(p, s) == Len(p) <= Len(s) /\ \A i \in 1..Len(p) : p[i] = s[i]

\* All sequences over S of length at most n.
RECURSIVE SeqsUpTo(_, _)
SeqsUpTo(S, n) ==
    IF n = 0 THEN {<<>>}
    ELSE LET shorter == SeqsUpTo(S, n - 1)
         IN shorter \cup {Append(s, x) : s \in {t \in shorter : Len(t) = n - 1}, x \in S}

\* ------------------------------------------------------------------ sorted()
\* Python's sorted(): a stable ascending sort, here by insertion.
RECURSIVE Insert(_, _)
Insert(x, s) ==
    IF s = <<>> THEN <<x>>
    ELSE IF x < Head(s) THEN <<x>> \o s
    ELSE <<Head(s)>> \o Insert(x, Tail(s))

RECURSIVE Sorted(_)
Sorted(s) ==
    IF s = <<>> THEN <<>>
    ELSE Insert(s[Len(s)], Sorted(SubSeq(s, 1, Len(s) - 1)))

\* --------------------------------------------------------- find_service_file
\* A directory is the sequence of its path components; a file is
\* [dir |-> containing directory, name |-> unit name]; the file system is
\* the sequence of its files in the order a directory walk yields them.
UnderDir(path, file) == IsPrefix(path, file.dir)
DirectChild(path, file) == file.dir = path

Matches(path, service, recursive, fs) ==
    SelectSeq(fs, LAMBDA f : f.name = service
                             /\ IF recursive THEN UnderDir(path, f)
                                             ELSE DirectChild(path, f))

RECURSIVE FindServiceFile(_, _, _, _)
FindServiceFile(service, service_paths, recursive, fs) ==
    IF service_paths = <<>> THEN None
    ELSE LET matches == Matches(Head(service_paths), service, recursive, fs)
         IN IF matches # <<>> THEN Some(matches[1])
            ELSE FindServiceFile(service, Tail(service_paths), recursive, fs)

\* service_file.startswith(str(p)) for some configured path p.  The relative
\* directory "." is the path <<".">>: str() renders it as "." and renders the
\* files found in it without it ("x.service", "sub/x.service"), so none of
\* them starts with it.
StartsWithAny(file, service_paths) ==
    \E i \in 1..Len(service_paths) :
        service_paths[i] # <<".">> /\ UnderDir(service_paths[i], file)

\* --------------------------------------------------------------- get_services
\* tool: "ok" (exit 0), "fail" (non-zero exit: CalledProcessError) or
\* "missing" (no such executable: FileNotFoundError, an OSError).
ToolStates == {"ok", "fail", "missing"}

KeepEntry(entry, user_only, service_paths, recursive, fs) ==
    /\ entry # 0
    /\ user_only =>
         LET service_file == FindServiceFile(entry, service_paths, recursive, fs)
         IN service_file.some /\ StartsWithAny(service_file.v, service_paths)

Collected(out, user_only, service_paths, recursive, fs) ==
    SelectSeq(out, LAMBDA e : KeepEntry(e, user_only, service_paths, recursive, fs))

GetServices(tool, out, user_only, service_paths, recursive, fs) ==
    CASE tool = "missing" -> Raise("FileNotFoundError")
      [] tool = "fail"    -> Return(Sorted(<<>>))
      [] OTHER            -> Return(Sorted(Collected(out, user_only, service_paths,
                                                     recursive, fs)))

\* ---------------------------------------------------------- get_service_status
\* 'Active:' in line, 'Loaded:' in line, ...: substring tests, at token level.
HasToken(line, tok) == \E i \in 1..Len(line) : line[i] = tok

\* 'active (running)' in line: the phrase is also a substring of a rendered
\* line in which a longer word ends in "active".
EndsInActive(tok) == tok \in {"active", "inactive"}
HasRunningPhrase(line) ==
    \E i \in 1..(Len(line) - 1) : EndsInActive(line[i]) /\ line[i + 1] = "(running)"

\* re.search(r'since (.+?)(?:;|$)', line): the leftmost "since " that is
\* followed by at least one character; the group runs lazily up to the first
\* ';' after that character, or to the end of the line.
SinceStarts(line) ==
    {i \in 1..(Len(line) - 1) : line[i] = "since" /\ line[i + 1] # ";"}

SinceEnd(line, i) ==
    LET semis == {j \in (i + 2)..Len(line) : line[j] = ";"}
    IN IF semis = {} THEN Len(line)
       ELSE (CHOOSE j \in semis : \A k \in semis : j <= k) - 1

SinceMatch(line) ==
    LET starts == SinceStarts(line)
    IN IF starts = {} THEN None
       ELSE LET i == CHOOSE k \in starts : \A m \in starts : k <= m
            IN Some(SubSeq(line, i + 1, SinceEnd(line, i)))

\* re.search(r'Main PID: (\d+)', line)
IsDigits(tok) == tok \in {"1234", "77"}
PidMatch(line) ==
    LET starts == {i \in 1..(Len(line) - 1) : line[i] = "Main PID:" /\ IsDigits(line[i + 1])}
    IN IF starts = {} THEN None
       ELSE Some(line[(CHOOSE k \in starts : \A m \in starts : k <= m) + 1])

\* re.search(r'Memory: (.+?)(?:\s|$)', line): the characters after the label
\* up to the next blank, i.e. the next token and any ';' attached to it.
RECURSIVE Attached(_, _)
Attached(line, j) ==
    IF j <= Len(line) /\ line[j] = ";" THEN <<";">> \o Attached(line, j + 1) ELSE <<>>

MemoryMatch(line) ==
    LET starts == {i \in 1..(Len(line) - 1) : line[i] = "Memory:" /\ line[i + 1] # ";"}
    IN IF starts = {} THEN None
       ELSE LET i == CHOOSE k \in starts : \A m \in starts : k <= m
            IN Some(<<line[i + 1]>> \o Attached(line, i + 2))

InitialStatus(service, file_path) ==
    [name |-> service, active |-> FALSE, enabled |-> FALSE, main_pid |-> None,
     memory |-> None, since |-> None, description |-> <<>>, file_path |-> file_path]

\* One iteration of the loop over result.stdout.split('\n').
ParseLine(status_info, line) ==
    CASE HasToken(line, "Active:") ->
            LET since_match == IF HasToken(line, "since") THEN SinceMatch(line) ELSE None
            IN [status_info EXCEPT !.active = HasRunningPhrase(line),
                                   !.since = IF since_match.some THEN since_match ELSE @]
      [] HasToken(line, "Loaded:") ->
            [status_info EXCEPT !.enabled = HasToken(line, "enabled")]
      [] HasToken(line, "Main PID:") ->
            LET pid_match == PidMatch(line)
            IN [status_info EXCEPT !.main_pid = IF pid_match.some THEN pid_match ELSE @]
      [] HasToken(line, "Memory:") ->
            LET memory_match == MemoryMatch(line)
            IN [status_info EXCEPT !.memory = IF memory_match.some THEN memory_match ELSE @]
      [] OTHER ->
            IF line # <<>> /\ line[1] # "BULLET" /\ status_info.description = <<>>
            THEN [status_info EXCEPT !.description = line]
            ELSE status_info

RECURSIVE ParseLines(_, _)
ParseLines(status_info, lines) ==
    IF lines = <<>> THEN status_info
    ELSE ParseLines(ParseLine(status_info, Head(lines)), Tail(lines))

\* The whole body runs under "except Exception: return None"; subprocess.run
\* is called without check=True, so a non-zero exit is parsed like any other.
GetServiceStatus(service, tool, stdout, file_path) ==
    IF tool = "missing" THEN None
    ELSE Some(ParseLines(InitialStatus(service, file_path), stdout))

\* ------------------------------------------------------------ control_service
\* (success, output); a missing executable raises FileNotFoundError.
ControlService(tool) ==
    CASE tool = "missing" -> Raise("FileNotFoundError")
      [] tool = "fail"    -> Return([success |-> FALSE, output |-> "stderr"])
      [] OTHER            -> Return([success |-> TRUE, output |-> "stdout"])

\* ----------------------------------------------------------- get_service_logs
NoLogsSentinel == <<"No logs available or service not found">>

\* stdout is the sequence of the non-blank-trimmed output lines; lines caps it
\* (journalctl -n): the most recent lines, newest last.
LastLines(stdout, lines) ==
    IF Len(stdout) <= lines THEN stdout
    ELSE SubSeq(stdout, Len(stdout) - lines + 1, Len(stdout))

\* A get_service_logs that answers an empty output with the sentinel as well.
GetServiceLogsSentinelOnEmpty(tool, stdout, lines) ==
    CASE tool = "missing" -> Raise("FileNotFoundError")
      [] tool = "fail"    -> Return(NoLogsSentinel)
      [] OTHER            -> LET out == LastLines(stdout, lines)
                             IN Return(IF out # <<>> THEN out ELSE NoLogsSentinel)

GetServiceLogs(tool, stdout, lines) ==
    CASE tool = "missing" -> Raise("FileNotFoundError")
      [] tool = "fail"    -> Return(NoLogsSentinel)
      [] OTHER            -> LET out == LastLines(stdout, lines)
                             IN Return(IF out # <<>> THEN out ELSE <<>>)

\* -------------------------------------------------------------- format_uptime
\* A timestamp text, and the text format_uptime returns, is a sequence of
\* tokens [k |-> kind, n |-> number].  Kinds: "wd" a weekday name; "date" a
\* calendar date (n its day number); "time" a time of day (n its second of the
\* day); "tz" a zone name (n = 0: one that %Z accepts, UTC, GMT or the local
\* zone; any other n: one it does not); "semi" a ';'; "word" any other word;
\* "d", "h", "m" a number followed by that letter; "N/A" the literal.
Tok(k, n) == [k |-> k, n |-> n]

\* since_str.split(';')[0].strip()
BeforeSemi(text) ==
    LET semis == {i \in 1..Len(text) : text[i].k = "semi"}
    IN IF semis = {} THEN text
       ELSE SubSeq(text, 1, (CHOOSE i \in semis : \A j \in semis : i <= j) - 1)

\* datetime.strptime(text, '%a %Y-%m-%d %H:%M:%S %Z'), as seconds; the weekday
\* is not checked against the date.
Strptime(text) ==
    IF /\ Len(text) = 4
       /\ text[1].k = "wd" /\ text[2].k = "date" /\ text[3].k = "time"
       /\ text[4].k = "tz" /\ text[4].n = 0
    THEN Return(text[2].n * 86400 + text[3].n)
    ELSE Raise("ValueError")

\* since_str is None, or Some(text); now_dt is datetime.now(), in seconds.
\* timedelta keeps days = floor(seconds / 86400) and 0 <= seconds < 86400.
FormatUptime(since_str, now_dt) ==
    IF ~since_str.some \/ since_str.v = <<>> THEN <<Tok("N/A", 0)>>
    ELSE LET since_time == Strptime(BeforeSemi(since_str.v))
         IN IF since_time.raised # "none" THEN since_str.v
            ELSE LET uptime == now_dt - since_time.val
                     days == uptime \div 86400
                     seconds == uptime % 86400
                     hours == seconds \div 3600
                     minutes == (seconds % 3600) \div 60
                 IN IF days > 0
                    THEN <<Tok("d", days), Tok("h", hours), Tok("m", minutes)>>
                    ELSE IF hours > 0
                    THEN <<Tok("h", hours), Tok("m", minutes)>>
                    ELSE <<Tok("m", minutes)>>

\* -------------------------------------------------------------------- Config
DefaultDirectories ==
    << <<"etc", "systemd", "system">>,
       <<"usr", "lib", "systemd", "system">>,
       <<"lib", "systemd", "system">> >>

DefaultRefreshInterval == 5

default_config ==
    [service_directories |-> DefaultDirectories,
     recursive_search |-> TRUE,
     user_services_only |-> TRUE,
     refresh_interval |-> DefaultRefreshInterval]

ConfigKeys == DOMAIN default_config

\* The config file: absent, unparsable, or a JSON object giving some keys.
NoFile == [kind |-> "absent"]
Malformed == [kind |-> "malformed"]
JsonFile(obj) == [kind |-> "json", obj |-> obj]

\* merged_config = default_config.copy(); merged_config.update(config)
LoadConfig(file) ==
    IF file.kind = "json"
    THEN [k \in ConfigKeys |-> IF k \in DOMAIN file.obj THEN file.obj[k]
                                                       ELSE default_config[k]]
    ELSE default_config

\* The file is unreadable (IOError, caught), or holds a JSON value that is not
\* an object: json.load returns it and merged_config.update(config) raises
\* TypeError, which load_config does not catch, unless the value is an empty
\* array, which update() takes as no pairs.
Unreadable == [kind |-> "unreadable"]
JsonValue(v) == [kind |-> "json_value", val |-> v]

LoadConfigCall(file) ==
    IF file.kind = "json_value"
    THEN IF file.val = "empty_array" THEN Return(default_config) ELSE Raise("TypeError")
    ELSE Return(LoadConfig(file))

\* config.get('refresh_interval', default)
GetRefreshInterval(cfg) ==
    IF "refresh_interval" \in DOMAIN cfg THEN cfg.refresh_interval
    ELSE default_config.refresh_interval

\* ------------------------------------------------------------ terminal sizes
\* height x width of the terminal, fixed for a session.
Sizes ==
    {[h |-> 24, w |-> 80], [h |-> 10, w |-> 80], [h |-> 8, w |-> 60], [h |-> 4, w |-> 30]}

\* draw_header: False below 80 x 10, True otherwise.
HeaderOk(t) == ~(t.w < 80 \/ t.h < 10)

\* curses.newwin fails for a window placed at a negative row, and addstr fails
\* for text that runs past the end of its window: show_message's window is 5
\* rows high and its prompt line needs 28 cells from column 3 of row 3.
ShowMessageRaises(t) == (t.h - 5) < 0 \/ Min(42, t.w - 4) < 16

\* show_status_detail: a 12-row window.
StatusDetailRaises(t) == (t.h - 12) < 0 \/ Min(80, t.w - 4) < 16

LogViewerTooSmall(t) == t.w < 40 \/ t.h < 8
ConfigScreenTooSmall(t) == t.w < 60 \/ t.h < 15

\* ------------------------------------------------------------------ the world
\* What the external tools would answer at the moment of a call.
ListingOutputs == SeqsUpTo(0..NumUnits, MaxListing)

UnitFile(d, n) == [dir |-> d, name |-> n]
FsChoices ==
    { <<>>,
      [n \in Names |-> UnitFile(DefaultDirectories[1], n)],
      <<UnitFile(DefaultDirectories[1] \o <<"sub">>, 1), UnitFile(<<"tmp", "x">>, 2)>>,
      <<UnitFile(<<".">>, 1), UnitFile(DefaultDirectories[2], 1),
        UnitFile(DefaultDirectories[1], 1), UnitFile(DefaultDirectories[1], 2)>> }

\* What the dashboard's tools answer: systemctl lists the unit files in
\* ascending order, followed by its footer line: those of the first k units,
\* or of all units but the first.
RECURSIVE Ascending(_, _)
Ascending(S, n) ==
    IF n > NumUnits THEN <<>>
    ELSE (IF n \in S THEN <<n>> ELSE <<>>) \o Ascending(S, n + 1)

DashListings ==
    {Ascending(1..k, 1) \o <<0>> : k \in 0..NumUnits} \cup {Ascending(Names \ {1}, 1) \o <<0>>}
DashRunning == {{1}}
DashFs == {[n \in Names |-> UnitFile(DefaultDirectories[1], n)]}

RunningReport ==
    << <<"BULLET", "unit", "-", "daemon">>,
       <<"Loaded:", "loaded", "(", "path", ";", "enabled", ")">>,
       <<"Active:", "active", "(running)", "since", "Mon", "2024-01-01", "10:00:00",
         "UTC", ";", "2h", "ago">>,
       <<"Main PID:", "1234", "(daemon)">>,
       <<"Memory:", "12.3M">>,
       <<"Started", "daemon">> >>

DeadReport ==
    << <<"BULLET", "unit", "-", "daemon">>,
       <<"Loaded:", "loaded", "(", "path", ";", "disabled", ")">>,
       <<"Active:", "inactive", "(dead)">> >>

StatusOutput(n, running) == IF n \in running THEN RunningReport ELSE DeadReport

LogText == <<"log1", "log2", "log3", "log4", "log5", "log6">>
JournalOutputs == {SubSeq(LogText, 1, n) : n \in 0..MaxLogs}
LogLines == 100

\* ------------------------------------------------------------------ variables
VARIABLES
    pc,                 \* where the session is: "start", "top" (head of the run
                        \* loop), "getch" (Ready, blocked for a key), a modal
                        \* screen, "exited", "interrupted" or "crashed"
    ret,                \* where a blocking message dialog returns to
    services,           \* TUI.services
    current_selection,  \* TUI.current_selection
    last_refresh,       \* TUI.last_refresh
    initial_load,       \* TUI.initial_load
    now,                \* time.time()
    term,               \* stdscr.getmaxyx()
    config,             \* Config.config
    disk,               \* the config file
    service_paths,      \* SystemdControl.service_paths
    logs,               \* show_service_logs: logs
    scroll_pos,         \* show_service_logs: scroll_pos
    selection,          \* show_config_screen: selection
    trail,              \* what the current phase of the loop has done: the
                        \* dispatch of the last key, or the head of the loop
    save_outcomes,      \* how a write of the config file may end in this session
    probe,              \* the last call of a function checked on its own
    directories,        \* edit_service_directories: directories (the working copy)
    dir_selection       \* edit_service_directories: selection

dashVars == <<pc, ret, services, current_selection, last_refresh, initial_load, now, term,
              logs, scroll_pos, selection, trail>>
cfgVars == <<config, disk, service_paths, save_outcomes>>
edVars == <<directories, dir_selection>>
vars == <<dashVars, cfgVars, probe, edVars>>

Ev(e, arg) == [e |-> e, arg |-> arg]

\* Python indexing: a negative index counts from the end.
\* An indexing that ignores the cursor and takes the first row.
PyIndexFirst(s, i) == s[1]

PyIndex(s, i) == IF i < 0 THEN s[Len(s) + i + 1] ELSE s[i + 1]

DiskChoices == {NoFile, JsonFile([refresh_interval |-> 0])}

Init ==
    /\ pc = "start"
    /\ ret = "top"
    /\ services = <<>>
    /\ current_selection = 0
    /\ last_refresh = 0
    /\ initial_load = TRUE
    /\ now = 0
    /\ term \in Sizes
    /\ disk \in DiskChoices
    /\ config = LoadConfig(disk)
    /\ service_paths = config.service_directories
    /\ logs = <<>>
    /\ scroll_pos = 0
    /\ selection = 0
    /\ trail = <<>>
    /\ save_outcomes = {"ok"}
    /\ probe = [fn |-> "none"]
    /\ directories = <<>>
    /\ dir_selection = 0

\* ----------------------------------------------------------- refresh_services
Worlds ==
    {[tool |-> t, out |-> <<>>, running |-> {}, fs |-> <<>>] : t \in {"fail", "missing"}}
    \cup {[tool |-> "ok", out |-> o, running |-> r, fs |-> f] :
             o \in DashListings, r \in DashRunning, f \in DashFs}

\* [status for service in all_services if status]
StatusList(all_services, w, cfg, spaths) ==
    LET status(i) ==
            GetServiceStatus(all_services[i], w.tool,
                             StatusOutput(all_services[i], w.running),
                             FindServiceFile(all_services[i], spaths,
                                             cfg.recursive_search, w.fs))
        kept == SelectSeq([i \in 1..Len(all_services) |-> status(i)], LAMBDA st : st.some)
    IN [i \in 1..Len(kept) |-> kept[i].v]

\* The new value of TUI.services, or the exception get_services lets through
\* (self.services is assigned only after get_services has returned).
RefreshServices(w, cfg, spaths) ==
    LET all_services == GetServices(w.tool, w.out, cfg.user_services_only, spaths,
                                    cfg.recursive_search, w.fs)
    IN IF all_services.raised # "none" THEN all_services
       ELSE Return(StatusList(all_services.val, w, cfg, spaths))

\* ---------------------------------------------------------------- draw_services
MaxServices(t) == t.h - 6 - 2

\* The cursor after draw_services: clamped unless the terminal is too small.
DrawServices(svcs, sel, t) ==
    IF t.w < 80 \/ t.h < 10 THEN sel
    ELSE IF sel >= Len(svcs) THEN Max(0, Len(svcs) - 1)
    ELSE sel

\* The index of the row drawn highlighted, -1 when no row is.
Highlighted(svcs, sel, t) ==
    IF sel >= 0 /\ sel < Min(Len(svcs), Min(MaxServices(t), t.h - 1 - 6)) THEN sel ELSE -1

\* The frame of one loop iteration: header, then the table if the header is ok.
Frame(svcs, sel, t) ==
    IF HeaderOk(t)
    THEN [sel |-> DrawServices(svcs, sel, t),
          ev |-> <<Ev("draw", Highlighted(svcs, DrawServices(svcs, sel, t), t))>>]
    ELSE [sel |-> sel, ev |-> <<Ev("too_small", 0)>>]

\* ----------------------------------------------------------------- TUI.run
\* A start of run that leaves the loading flag set.
RunStartKeepsLoading ==
    /\ pc = "start"
    /\ \E w \in Worlds :
         LET r == RefreshServices(w, config, service_paths)
         IN /\ r.raised = "none"
            /\ pc' = "top"
            /\ services' = r.val
            /\ last_refresh' = now
            /\ trail' = <<Ev("refresh", 0)>>
    /\ UNCHANGED <<ret, current_selection, initial_load, now, term, logs, scroll_pos,
                   selection, cfgVars, probe, edVars>>

\* run(), up to the loop: the first refresh, outside any try block.
RunStart ==
    /\ pc = "start"
    /\ \E w \in Worlds :
         LET r == RefreshServices(w, config, service_paths)
         IN IF r.raised # "none"
            THEN /\ pc' = "crashed"
                 /\ trail' = <<Ev("raised", 0)>>
                 /\ UNCHANGED <<services, last_refresh, initial_load>>
            ELSE /\ pc' = "top"
                 /\ services' = r.val
                 /\ last_refresh' = now
                 /\ initial_load' = FALSE
                 /\ trail' = <<Ev("refresh", 0)>>
    /\ UNCHANGED <<ret, current_selection, now, term, logs, scroll_pos, selection,
                   cfgVars, probe>>
    /\ UNCHANGED edVars

\* time.time() - self.last_refresh > refresh_interval
\* A check that lets one more second pass.
PeriodicDueLate(t, last, refresh_interval) == t - last > refresh_interval + 1

PeriodicDue(t, last, refresh_interval) == t - last > refresh_interval

\* The head of one loop iteration: the periodic refresh check, then the frame,
\* then the blocking getch.
LoopTop ==
    /\ pc = "top"
    /\ IF PeriodicDue(now, last_refresh, config.refresh_interval)
       THEN \E w \in Worlds :
              LET r == RefreshServices(w, config, service_paths)
              IN IF r.raised # "none"
                 THEN /\ pc' = "crashed"
                      /\ trail' = <<Ev("raised", 0)>>
                      /\ UNCHANGED <<services, last_refresh, current_selection>>
                 ELSE /\ pc' = "getch"
                      /\ services' = r.val
                      /\ last_refresh' = now
                      /\ current_selection' = Frame(r.val, current_selection, term).sel
                      /\ trail' = <<Ev("refresh", 0)>>
                                    \o Frame(r.val, current_selection, term).ev
       ELSE /\ pc' = "getch"
            /\ current_selection' = Frame(services, current_selection, term).sel
            /\ trail' = Frame(services, current_selection, term).ev
            /\ UNCHANGED <<services, last_refresh>>
    /\ UNCHANGED <<ret, initial_load, now, term, logs, scroll_pos, selection, cfgVars, probe>>
    /\ UNCHANGED edVars

\* Time passes while the session is blocked in a getch.
Blocking == {"getch", "popup", "logs", "settings", "message", "dir_editor", "prompt_dir",
             "prompt_interval"}

Tick ==
    /\ pc \in Blocking
    /\ now < MaxTime
    /\ now' = now + 1
    /\ UNCHANGED <<pc, ret, services, current_selection, last_refresh, initial_load, term,
                   logs, scroll_pos, selection, trail, cfgVars, probe>>
    /\ UNCHANGED edVars

\* q or ESC
KeyQuit ==
    /\ pc = "getch"
    /\ pc' = "exited"
    /\ trail' = <<Ev("key_quit", 0)>>
    /\ UNCHANGED <<ret, services, current_selection, last_refresh, initial_load, now, term,
                   logs, scroll_pos, selection, cfgVars, probe>>
    /\ UNCHANGED edVars

\* Ctrl-C during getch: KeyboardInterrupt, caught by run, which breaks.
KeyInterrupt ==
    /\ pc = "getch"
    /\ pc' = "interrupted"
    /\ trail' = <<Ev("interrupt", 0)>>
    /\ UNCHANGED <<ret, services, current_selection, last_refresh, initial_load, now, term,
                   logs, scroll_pos, selection, cfgVars, probe>>
    /\ UNCHANGED edVars

\* r: refresh_services inside run's try, which catches only KeyboardInterrupt
\* and curses.error.
KeyRefresh ==
    /\ pc = "getch"
    /\ \E w \in Worlds :
         LET r == RefreshServices(w, config, service_paths)
         IN IF r.raised # "none"
            THEN /\ pc' = "crashed"
                 /\ trail' = <<Ev("key_refresh", 0), Ev("raised", 0)>>
                 /\ UNCHANGED <<services, last_refresh>>
            ELSE /\ pc' = "top"
                 /\ services' = r.val
                 /\ last_refresh' = now
                 /\ trail' = <<Ev("key_refresh", 0), Ev("refresh", 0)>>
    /\ UNCHANGED <<ret, current_selection, initial_load, now, term, logs, scroll_pos,
                   selection, cfgVars, probe>>
    /\ UNCHANGED edVars

SelectionUp(sel) == Max(0, sel - 1)
SelectionDown(svcs, sel) == Min(Len(svcs) - 1, sel + 1)

KeyUp ==
    /\ pc = "getch"
    /\ current_selection' = SelectionUp(current_selection)
    /\ pc' = "top"
    /\ trail' = <<Ev("key_up", 0)>>
    /\ UNCHANGED <<ret, services, last_refresh, initial_load, now, term, logs, scroll_pos,
                   selection, cfgVars, probe>>
    /\ UNCHANGED edVars

KeyDown ==
    /\ pc = "getch"
    /\ current_selection' = SelectionDown(services, current_selection)
    /\ pc' = "top"
    /\ trail' = <<Ev("key_down", 0)>>
    /\ UNCHANGED <<ret, services, last_refresh, initial_load, now, term, logs, scroll_pos,
                   selection, cfgVars, probe>>
    /\ UNCHANGED edVars

\* Any key run does not handle.
KeyOther ==
    /\ pc = "getch"
    /\ pc' = "top"
    /\ trail' = <<Ev("key_other", 0)>>
    /\ UNCHANGED <<ret, services, current_selection, last_refresh, initial_load, now, term,
                   logs, scroll_pos, selection, cfgVars, probe>>
    /\ UNCHANGED edVars

\* "if self.services and self.current_selection < len(self.services)"
HasSelected(svcs, sel) == svcs # <<>> /\ sel < Len(svcs)

\* ------------------------------------------------------------ status popup
\* space: show_status_detail blocks in popup.getch(); a curses.error out of it
\* is caught by run.
KeySpace ==
    /\ pc = "getch"
    /\ IF HasSelected(services, current_selection)
       THEN IF StatusDetailRaises(term)
            THEN pc' = "top" /\ trail' = <<Ev("key_space", 0), Ev("curses_error", 0)>>
            ELSE pc' = "popup" /\ trail' = <<Ev("key_space", 0)>>
       ELSE pc' = "top" /\ trail' = <<Ev("key_space", 0)>>
    /\ UNCHANGED <<ret, services, current_selection, last_refresh, initial_load, now, term,
                   logs, scroll_pos, selection, cfgVars, probe>>
    /\ UNCHANGED edVars

PopupKey ==
    /\ pc = "popup"
    /\ pc' = "top"
    /\ trail' = Append(trail, Ev("popup_closed", 0))
    /\ UNCHANGED <<ret, services, current_selection, last_refresh, initial_load, now, term,
                   logs, scroll_pos, selection, cfgVars, probe>>
    /\ UNCHANGED edVars

\* ----------------------------------------------------------- show_message
\* The dialog is up (pc "message") or curses.error left show_message.
\* Called from a place whose curses.error reaches run's handler.
ShowMessage(prefix, back) ==
    IF ShowMessageRaises(term)
    THEN pc' = "top" /\ ret' = ret /\ trail' = Append(prefix, Ev("curses_error", 0))
    ELSE pc' = "message" /\ ret' = back /\ trail' = Append(prefix, Ev("message", 0))

\* Any key closes the dialog.  After the "too small" dialog of the config
\* screen, run goes on to refresh_services.
MessageKey ==
    /\ pc = "message"
    /\ IF ret = "config_refresh"
       THEN \E w \in Worlds :
              LET r == RefreshServices(w, config, service_paths)
              IN IF r.raised # "none"
                 THEN /\ pc' = "crashed"
                      /\ trail' = Append(trail, Ev("raised", 0))
                      /\ UNCHANGED <<services, last_refresh>>
                 ELSE /\ pc' = "top"
                      /\ services' = r.val
                      /\ last_refresh' = now
                      /\ trail' = trail \o <<Ev("settings_closed", 0), Ev("refresh", 0)>>
       ELSE /\ pc' = ret
            /\ trail' = trail
            /\ UNCHANGED <<services, last_refresh>>
    /\ ret' = "top"
    /\ UNCHANGED <<current_selection, initial_load, now, term, logs, scroll_pos, selection,
                   cfgVars, probe>>
    /\ UNCHANGED edVars

\* ------------------------------------------------------ handle_service_action
Actions == {"start", "stop", "restart"}

\* "Performing <action> on <name>..." is written at (0, 0) and raises
\* curses.error when it does not fit the screen; it is 32 to 280 characters
\* long, depending on the unit name.
ProgressRaises(t) ==
    IF t.h * t.w > 280 THEN {FALSE} ELSE IF t.h * t.w < 32 THEN {TRUE} ELSE {FALSE, TRUE}

\* s, p, e.  Everything after the guard runs under "except Exception", whose
\* handler calls show_message.
KeyAction ==
    /\ pc = "getch"
    /\ \E action \in Actions :
         LET key == <<Ev("key_action", 0)>>
         IN IF ~HasSelected(services, current_selection)
            THEN /\ pc' = "top" /\ ret' = ret /\ trail' = key
                 /\ UNCHANGED <<services, last_refresh>>
            ELSE LET service_name == PyIndex(services, current_selection).name
                 IN \E raises \in ProgressRaises(term), tool \in ToolStates, w \in Worlds :
                      LET c == ControlService(tool)
                          r == RefreshServices(w, config, service_paths)
                      IN CASE raises ->
                                /\ ShowMessage(key, "top")
                                /\ UNCHANGED <<services, last_refresh>>
                           [] ~raises /\ c.raised # "none" ->
                                /\ ShowMessage(Append(key, Ev("exec_raised", service_name)),
                                               "top")
                                /\ UNCHANGED <<services, last_refresh>>
                           [] ~raises /\ c.raised = "none" /\ ~c.val.success ->
                                /\ ShowMessage(Append(key, Ev("exec_failed", service_name)),
                                               "top")
                                /\ UNCHANGED <<services, last_refresh>>
                           [] ~raises /\ c.raised = "none" /\ c.val.success
                                      /\ r.raised # "none" ->
                                /\ ShowMessage(key \o <<Ev("exec_ok", service_name),
                                                        Ev("brief", 0), Ev("raised", 0)>>,
                                               "top")
                                /\ UNCHANGED <<services, last_refresh>>
                           [] OTHER ->
                                /\ pc' = "top"
                                /\ ret' = ret
                                /\ services' = r.val
                                /\ last_refresh' = now
                                /\ trail' = key \o <<Ev("exec_ok", service_name),
                                                     Ev("brief", 0), Ev("refresh", 0)>>
    /\ UNCHANGED <<current_selection, initial_load, now, term, logs, scroll_pos, selection,
                   cfgVars, probe>>
    /\ UNCHANGED edVars

\* ----------------------------------------------------------- show_service_logs
DisplayHeight(t) == t.h - 6
MaxScroll(lg, t) == Max(0, Len(lg) - DisplayHeight(t))

\* l: the logs are fetched first (a FileNotFoundError passes through run),
\* then the size check, then the viewer opens at the tail.
KeyLogs ==
    /\ pc = "getch"
    /\ IF ~HasSelected(services, current_selection)
       THEN /\ pc' = "top" /\ ret' = ret /\ trail' = <<Ev("key_logs", 0)>>
            /\ UNCHANGED <<logs, scroll_pos>>
       ELSE LET service_name == PyIndex(services, current_selection).name
                key == <<Ev("key_logs", 0), Ev("fetch_logs", service_name)>>
            IN \E tool \in ToolStates, stdout \in JournalOutputs :
                 LET r == GetServiceLogs(tool, stdout, LogLines)
                 IN CASE r.raised # "none" ->
                           /\ pc' = "crashed" /\ ret' = ret
                           /\ trail' = Append(key, Ev("raised", 0))
                           /\ UNCHANGED <<logs, scroll_pos>>
                      [] r.raised = "none" /\ LogViewerTooSmall(term) ->
                           /\ ShowMessage(key, "top")
                           /\ UNCHANGED <<logs, scroll_pos>>
                      [] OTHER ->
                           /\ pc' = "logs" /\ ret' = ret
                           /\ trail' = key
                           /\ logs' = r.val
                           /\ scroll_pos' = MaxScroll(r.val, term)
    /\ UNCHANGED <<services, current_selection, last_refresh, initial_load, now, term,
                   selection, cfgVars, probe>>
    /\ UNCHANGED edVars

LogKeys == {"up", "down", "npage", "ppage", "home", "end", "other"}

\* A scroll whose line-down and page-down steps are not clamped.
ScrollUnclamped(key, pos, lg, t) ==
    CASE key = "up"    -> Max(0, pos - 1)
      [] key = "down"  -> pos + 1
      [] key = "npage" -> pos + DisplayHeight(t)
      [] key = "ppage" -> Max(0, pos - DisplayHeight(t))
      [] key = "home"  -> 0
      [] key = "end"   -> MaxScroll(lg, t)
      [] OTHER         -> pos

Scroll(key, pos, lg, t) ==
    CASE key = "up"    -> Max(0, pos - 1)
      [] key = "down"  -> Min(MaxScroll(lg, t), pos + 1)
      [] key = "npage" -> Min(MaxScroll(lg, t), pos + DisplayHeight(t))
      [] key = "ppage" -> Max(0, pos - DisplayHeight(t))
      [] key = "home"  -> 0
      [] key = "end"   -> MaxScroll(lg, t)
      [] OTHER         -> pos

\* A viewer that fetches the logs again on every key.
LogsKeyRefetches ==
    /\ pc = "logs"
    /\ \E key \in LogKeys, stdout \in JournalOutputs :
         LET r == GetServiceLogs("ok", stdout, LogLines)
         IN /\ logs' = r.val
            /\ scroll_pos' = Scroll(key, scroll_pos, r.val, term)
    /\ UNCHANGED <<pc, ret, services, current_selection, last_refresh, initial_load, now,
                   term, selection, trail, cfgVars, probe, edVars>>

LogsKey ==
    /\ pc = "logs"
    /\ \E key \in LogKeys : scroll_pos' = Scroll(key, scroll_pos, logs, term)
    /\ UNCHANGED <<pc, ret, services, current_selection, last_refresh, initial_load, now,
                   term, logs, selection, trail, cfgVars, probe>>
    /\ UNCHANGED edVars

\* q or ESC in the viewer
LogsQuit ==
    /\ pc = "logs"
    /\ pc' = "top"
    /\ trail' = Append(trail, Ev("logs_closed", 0))
    /\ logs' = <<>>
    /\ scroll_pos' = 0
    /\ UNCHANGED <<ret, services, current_selection, last_refresh, initial_load, now, term,
                   selection, cfgVars, probe>>
    /\ UNCHANGED edVars

\* ---------------------------------------------------------------- save_config
\* json.dump into the file opened for writing: "ok"; IOError before the file
\* is opened: "open_failed"; IOError after it was truncated: "write_failed".
SaveOutcomes == {"ok", "open_failed", "write_failed"}

SaveConfig(cfg, file, outcome) ==
    CASE outcome = "ok"           -> [ok |-> TRUE, disk |-> JsonFile(cfg)]
      [] outcome = "open_failed"  -> [ok |-> FALSE, disk |-> file]
      [] OTHER                    -> [ok |-> FALSE, disk |-> Malformed]

\* ---------------------------------------------------------- show_config_screen
\* c: the config screen, or its "too small" dialog; run then refreshes, unless
\* curses.error left show_config_screen.
KeyConfig ==
    /\ pc = "getch"
    /\ IF ConfigScreenTooSmall(term)
       THEN ShowMessage(<<Ev("key_config", 0)>>, "config_refresh")
       ELSE pc' = "settings" /\ ret' = ret /\ trail' = <<Ev("key_config", 0)>>
    /\ selection' = IF ConfigScreenTooSmall(term) THEN selection ELSE 0
    /\ UNCHANGED <<services, current_selection, last_refresh, initial_load, now, term,
                   logs, scroll_pos, cfgVars, probe>>
    /\ UNCHANGED edVars

\* config_options: four editable fields, then the config file path.
NumConfigOptions == 5
config_options ==
    <<"Service Directories", "Recursive Search", "User Services Only", "Refresh Interval",
      "Config File">>

SettingsUp ==
    /\ pc = "settings"
    /\ selection' = Max(0, selection - 1)
    /\ UNCHANGED <<pc, ret, services, current_selection, last_refresh, initial_load, now,
                   term, logs, scroll_pos, trail, cfgVars, probe>>
    /\ UNCHANGED edVars

\* A down key that may move the cursor onto the last field.
SettingsDownToLast ==
    /\ pc = "settings"
    /\ selection' = Min(NumConfigOptions - 1, selection + 1)
    /\ UNCHANGED <<pc, ret, services, current_selection, last_refresh, initial_load, now,
                   term, logs, scroll_pos, trail, cfgVars, probe>>
    /\ UNCHANGED edVars

SettingsDown ==
    /\ pc = "settings"
    /\ selection' = Min(NumConfigOptions - 2, selection + 1)
    /\ UNCHANGED <<pc, ret, services, current_selection, last_refresh, initial_load, now,
                   term, logs, scroll_pos, trail, cfgVars, probe>>
    /\ UNCHANGED edVars

\* Enter on "Recursive Search" or "User Services Only": edit_config_option
\* sets the negated value, saves, and shows the brief message whatever
\* the save returned.  saved is how the save ended ("ok", "failed", or "none"
\* when none was attempted), shown what was put on the screen.
EditConfigOption(sel, cfg, file, outcome) ==
    LET new == IF sel = 1
               THEN [cfg EXCEPT !.recursive_search = ~cfg.recursive_search]
               ELSE [cfg EXCEPT !.user_services_only = ~cfg.user_services_only]
        saved == SaveConfig(new, file, outcome)
    IN [config |-> new, disk |-> saved.disk,
        saved |-> IF saved.ok THEN "ok" ELSE "failed", shown |-> "brief"]

SettingsToggle ==
    /\ pc = "settings"
    /\ selection \in {1, 2}
    /\ selection < NumConfigOptions - 1
    /\ \E outcome \in save_outcomes :
         LET edit == EditConfigOption(selection, config, disk, outcome)
         IN /\ config' = edit.config
            /\ disk' = edit.disk
    /\ UNCHANGED <<pc, ret, services, current_selection, last_refresh, initial_load, now,
                   term, logs, scroll_pos, selection, trail, service_paths,
                   save_outcomes, probe>>
    /\ UNCHANGED edVars

\* r: reset_config; the failure dialog returns to the config screen.
SettingsReset ==
    /\ pc = "settings"
    /\ \E outcome \in save_outcomes :
         LET saved == SaveConfig(default_config, disk, outcome)
         IN /\ config' = default_config
            /\ disk' = saved.disk
            /\ IF saved.ok THEN pc' = pc /\ ret' = ret
                           ELSE pc' = "message" /\ ret' = "settings"
    /\ UNCHANGED <<services, current_selection, last_refresh, initial_load, now, term,
                   logs, scroll_pos, selection, trail, service_paths, save_outcomes,
                   probe>>
    /\ UNCHANGED edVars

\* A return from the config screen that goes back to the loop without the
\* refresh_services of run.
SettingsQuitNoRefresh ==
    /\ pc = "settings"
    /\ pc' = "top"
    /\ trail' = Append(trail, Ev("settings_closed", 0))
    /\ selection' = 0
    /\ UNCHANGED <<ret, services, current_selection, last_refresh, initial_load, now, term,
                   logs, scroll_pos, cfgVars, probe>>
    /\ UNCHANGED edVars

\* q or ESC in the config screen: show_config_screen returns and run calls
\* refresh_services.
SettingsQuit ==
    /\ pc = "settings"
    /\ \E w \in Worlds :
         LET r == RefreshServices(w, config, service_paths)
         IN IF r.raised # "none"
            THEN /\ pc' = "crashed"
                 /\ trail' = trail \o <<Ev("settings_closed", 0), Ev("raised", 0)>>
                 /\ UNCHANGED <<services, last_refresh>>
            ELSE /\ pc' = "top"
                 /\ services' = r.val
                 /\ last_refresh' = now
                 /\ trail' = trail \o <<Ev("settings_closed", 0), Ev("refresh", 0)>>
    /\ selection' = 0
    /\ UNCHANGED <<ret, current_selection, initial_load, now, term, logs, scroll_pos,
                   cfgVars, probe>>
    /\ UNCHANGED edVars

\* ------------------------------------------------------------- get_text_input
\* Keys are read one getch at a time until Enter or ESC.  A printable key
\* stands for the characters it types ("tmp" and "x" for "/tmp" and "/x"),
\* counted as one character of the text.
Printable == {"tmp", "x", "5", "0", " "}
InputWidth(t) == Min(60, t.w - 4)

RECURSIVE TypeKeys(_, _, _)
TypeKeys(text, keys, input_width) ==
    IF keys = <<>> THEN text
    ELSE LET ch == Head(keys)
         IN CASE ch = "ENTER" -> text
              [] ch = "ESC" -> <<>>
              [] ch = "BACKSPACE" ->
                    TypeKeys(IF text # <<>> THEN SubSeq(text, 1, Len(text) - 1) ELSE text,
                             Tail(keys), input_width)
              [] ch \in Printable ->
                    TypeKeys(IF Len(text) < input_width - 6 THEN Append(text, ch) ELSE text,
                             Tail(keys), input_width)
              [] OTHER -> TypeKeys(text, Tail(keys), input_width)

\* text.strip()
RECURSIVE LStrip(_)
LStrip(text) == IF text # <<>> /\ Head(text) = " " THEN LStrip(Tail(text)) ELSE text

RECURSIVE RStrip(_)
RStrip(text) ==
    IF text # <<>> /\ text[Len(text)] = " " THEN RStrip(SubSeq(text, 1, Len(text) - 1))
    ELSE text

Strip(text) == RStrip(LStrip(text))

\* A prompt that returns the text as typed, blanks included.
GetTextInputUnstripped(keys, t) == TypeKeys(<<>>, keys, InputWidth(t))

GetTextInput(keys, t) == Strip(TypeKeys(<<>>, keys, InputWidth(t)))

\* int(new_interval): the decimal value, or ValueError.
DigitValue(ch) == IF ch = "5" THEN 5 ELSE 0

RECURSIVE Decimal(_)
Decimal(text) ==
    IF text = <<>> THEN 0
    ELSE 10 * Decimal(SubSeq(text, 1, Len(text) - 1)) + DigitValue(text[Len(text)])

ParseInt(text) ==
    IF text # <<>> /\ \A i \in 1..Len(text) : text[i] \in {"5", "0"}
    THEN Return(Decimal(text))
    ELSE Raise("ValueError")

\* A setter that takes 0 as well.
SetRefreshIntervalFromZero(cfg, file, interval, outcome) ==
    IF interval >= 0
    THEN LET new == [cfg EXCEPT !.refresh_interval = interval]
             saved == SaveConfig(new, file, outcome)
         IN [ok |-> saved.ok, config |-> new, disk |-> saved.disk]
    ELSE [ok |-> FALSE, config |-> cfg, disk |-> file]

\* Config.set_refresh_interval
SetRefreshInterval(cfg, file, interval, outcome) ==
    IF interval > 0
    THEN LET new == [cfg EXCEPT !.refresh_interval = interval]
             saved == SaveConfig(new, file, outcome)
         IN [ok |-> saved.ok, config |-> new, disk |-> saved.disk]
    ELSE [ok |-> FALSE, config |-> cfg, disk |-> file]

\* What the user types into a prompt in a dashboard session.
DirKeySeqs ==
    { <<"ESC">>, <<"ENTER">>, <<" ", "ENTER">>, <<"x", "ESC">>,
      <<"tmp", "x", "ENTER">>, <<"x", "BACKSPACE", "tmp", "x", " ", "ENTER">> }
IntervalKeySeqs ==
    { <<"ESC">>, <<"ENTER">>, <<"5", "ESC">>, <<" ", "5", "ENTER">>, <<"0", "ENTER">>,
      <<"x", "ENTER">> }

\* ---------------------------------------------------------- edit_config_option
\* Enter on "Service Directories": the editor opens on a copy of the list.
SettingsEditDirectories ==
    /\ pc = "settings"
    /\ selection = 0
    /\ selection < NumConfigOptions - 1
    /\ pc' = "dir_editor"
    /\ directories' = config.service_directories
    /\ dir_selection' = 0
    /\ UNCHANGED <<ret, services, current_selection, last_refresh, initial_load, now, term,
                   logs, scroll_pos, selection, trail, cfgVars, probe>>

\* Enter on "Refresh Interval": the prompt opens.
SettingsEditInterval ==
    /\ pc = "settings"
    /\ selection = 3
    /\ selection < NumConfigOptions - 1
    /\ pc' = "prompt_interval"
    /\ UNCHANGED <<ret, services, current_selection, last_refresh, initial_load, now, term,
                   logs, scroll_pos, selection, trail, cfgVars, probe, edVars>>

\* edit_refresh_interval, from the return of the prompt: an empty text changes
\* nothing; a positive number is set and saved (the result of the save is not
\* read) and a brief message follows; anything else gets a dialog.  shown is
\* what is put on the screen: "none", "brief" (show_brief_message) or
\* "message" (show_message with is_error).
EditRefreshInterval(cfg, file, new_interval, outcome) ==
    LET interval == ParseInt(new_interval)
    IN IF new_interval = <<>>
       THEN [config |-> cfg, disk |-> file, saved |-> "none", shown |-> "none"]
       ELSE IF interval.raised # "none" \/ interval.val <= 0
       THEN [config |-> cfg, disk |-> file, saved |-> "none", shown |-> "message"]
       ELSE LET set == SetRefreshInterval(cfg, file, interval.val, outcome)
            IN [config |-> set.config, disk |-> set.disk,
                saved |-> IF set.ok THEN "ok" ELSE "failed", shown |-> "brief"]

PromptInterval ==
    /\ pc = "prompt_interval"
    /\ \E keys \in IntervalKeySeqs, outcome \in save_outcomes :
         LET edit == EditRefreshInterval(config, disk, GetTextInput(keys, term), outcome)
         IN /\ config' = edit.config
            /\ disk' = edit.disk
            /\ IF edit.shown = "message" THEN pc' = "message" /\ ret' = "settings"
                                         ELSE pc' = "settings" /\ ret' = ret
    /\ UNCHANGED <<services, current_selection, last_refresh, initial_load, now, term,
                   logs, scroll_pos, selection, trail, service_paths, save_outcomes,
                   probe, edVars>>

\* ------------------------------------------------------ edit_service_directories
DirUp ==
    /\ pc = "dir_editor"
    /\ dir_selection' = Max(0, dir_selection - 1)
    /\ UNCHANGED <<dashVars, cfgVars, probe, directories>>

DirDown ==
    /\ pc = "dir_editor"
    /\ dir_selection' = Min(Len(directories) - 1, dir_selection + 1)
    /\ UNCHANGED <<dashVars, cfgVars, probe, directories>>

\* a: the prompt opens.
DirAdd ==
    /\ pc = "dir_editor"
    /\ pc' = "prompt_dir"
    /\ UNCHANGED <<ret, services, current_selection, last_refresh, initial_load, now, term,
                   logs, scroll_pos, selection, trail, cfgVars, probe, edVars>>

\* The prompt returns: a non-empty text not yet in the list is appended.
AddDirectory(dirs, new_dir) ==
    IF new_dir # <<>> /\ new_dir \notin SeqToSet(dirs) THEN Append(dirs, new_dir) ELSE dirs

PromptDir ==
    /\ pc = "prompt_dir"
    /\ \E keys \in DirKeySeqs :
         directories' = AddDirectory(directories, GetTextInput(keys, term))
    /\ pc' = "dir_editor"
    /\ UNCHANGED <<ret, services, current_selection, last_refresh, initial_load, now, term,
                   logs, scroll_pos, selection, trail, cfgVars, probe, dir_selection>>

\* directories.pop(selection): a negative index counts from the end.
Pop(s, i) ==
    LET k == IF i < 0 THEN Len(s) + i + 1 ELSE i + 1
    IN SubSeq(s, 1, k - 1) \o SubSeq(s, k + 1, Len(s))

\* A delete that writes the shortened list to the configuration at once.
DirDeleteCommits ==
    /\ pc = "dir_editor"
    /\ directories # <<>>
    /\ dir_selection < Len(directories)
    /\ directories' = Pop(directories, dir_selection)
    /\ dir_selection' = Min(dir_selection, Len(directories) - 2)
    /\ config' = [config EXCEPT !.service_directories = directories']
    /\ disk' = JsonFile(config')
    /\ UNCHANGED <<dashVars, service_paths, save_outcomes, probe>>

\* d, with a non-empty list.
DirDelete ==
    /\ pc = "dir_editor"
    /\ directories # <<>>
    /\ IF dir_selection < Len(directories)
       THEN /\ directories' = Pop(directories, dir_selection)
            /\ dir_selection' = Min(dir_selection, Len(directories) - 2)
       ELSE UNCHANGED <<directories, dir_selection>>
    /\ UNCHANGED <<dashVars, cfgVars, probe>>

\* An exit from the editor that also refreshes the unit list, with the config
\* screen still open.
DirDoneRefreshes ==
    /\ pc = "dir_editor"
    /\ \E outcome \in save_outcomes, w \in Worlds :
         LET new == [config EXCEPT !.service_directories = directories]
             r == RefreshServices(w, new, service_paths)
         IN /\ config' = new
            /\ disk' = SaveConfig(new, disk, outcome).disk
            /\ r.raised = "none"
            /\ services' = r.val
            /\ last_refresh' = now
    /\ pc' = "settings"
    /\ directories' = <<>>
    /\ dir_selection' = 0
    /\ UNCHANGED <<ret, current_selection, initial_load, now, term, logs, scroll_pos,
                   selection, trail, service_paths, save_outcomes, probe>>

\* Enter or ESC: the working copy becomes the configured list and is saved;
\* the result of the save is not read and nothing is shown.
CommitDirectories(cfg, file, dirs, outcome) ==
    LET new == [cfg EXCEPT !.service_directories = dirs]
        saved == SaveConfig(new, file, outcome)
    IN [config |-> new, disk |-> saved.disk,
        saved |-> IF saved.ok THEN "ok" ELSE "failed", shown |-> "none"]

DirDone ==
    /\ pc = "dir_editor"
    /\ \E outcome \in save_outcomes :
         LET commit == CommitDirectories(config, disk, directories, outcome)
         IN /\ config' = commit.config
            /\ disk' = commit.disk
    /\ pc' = "settings"
    /\ directories' = <<>>
    /\ dir_selection' = 0
    /\ UNCHANGED <<ret, services, current_selection, last_refresh, initial_load, now, term,
                   logs, scroll_pos, selection, trail, service_paths, save_outcomes,
                   probe>>

\* ------------------------------------------------------------- the dashboard
Next ==
    \/ RunStart
    \/ LoopTop
    \/ Tick
    \/ KeyQuit
    \/ KeyInterrupt
    \/ KeyRefresh
    \/ KeyUp
    \/ KeyDown
    \/ KeyOther
    \/ KeySpace
    \/ PopupKey
    \/ MessageKey
    \/ KeyAction
    \/ KeyLogs
    \/ LogsKey
    \/ LogsQuit
    \/ KeyConfig
    \/ SettingsUp
    \/ SettingsDown
    \/ SettingsToggle
    \/ SettingsReset
    \/ SettingsEditDirectories
    \/ SettingsEditInterval
    \/ PromptInterval
    \/ DirUp
    \/ DirDown
    \/ DirAdd
    \/ PromptDir
    \/ DirDelete
    \/ DirDone
    \/ SettingsQuit

Spec == Init /\ [][Next]_vars

\* ------------------------------------------------- the status engine, by call
\* The functions of SystemdControl called on their own, once per behaviour,
\* with the answers of the external tools drawn from bounded sets; probe
\* records the call and what it returned or raised.
StatusLines ==
    { <<"BULLET", "unit", "-", "daemon">>,
      <<"Loaded:", "loaded", "(", "path", ";", "enabled", ")">>,
      <<"Active:", "active", "(running)", "since", "Mon", "2024-01-01", "10:00:00",
        "UTC", ";", "2h", "ago">>,
      <<"Active:", "active", "(exited)", "since", "T1">>,
      <<"Active:", "inactive", "(dead)">>,
      <<"Active:", "failed", "since", "T2", ";", "1", "day", ";", "ago">>,
      <<"Active:", "activating", "since">>,
      <<"Main PID:", "1234", "(daemon)">>,
      <<"Memory:", "12.3M">>,
      <<"Started", "daemon">>,
      <<"daemon:", "Active:", "connections">>,
      <<>> }

StatusReports == SeqsUpTo(StatusLines, MaxReportLines)

ProbeJournals == SeqsUpTo({"log1", "log2"}, MaxLogs)
ProbeLineCaps == {1, 2, LogLines}

ProbePaths ==
    {DefaultDirectories, <<DefaultDirectories[2], <<"tmp", "x">>>>, << <<".">> >>}

EngineInit ==
    /\ pc = "engine"
    /\ ret = "top"
    /\ services = <<>>
    /\ current_selection \in 0..(NumUnits - 1)
    /\ last_refresh = 0
    /\ initial_load = TRUE
    /\ now = 0
    /\ term = [h |-> 24, w |-> 80]
    /\ disk = NoFile
    /\ config = LoadConfig(disk)
    /\ service_paths = config.service_directories
    /\ logs = <<>>
    /\ scroll_pos = 0
    /\ selection = 0
    /\ trail = <<>>
    /\ save_outcomes = SaveOutcomes
    /\ probe = [fn |-> "none"]
    /\ directories = <<>>
    /\ dir_selection = 0

CallGetServices ==
    /\ pc = "engine"
    /\ \E tool \in ToolStates, out \in ListingOutputs, user_only \in BOOLEAN,
          spaths \in ProbePaths, recursive \in BOOLEAN, fs \in FsChoices :
         probe' = [fn |-> "get_services", tool |-> tool, out |-> out,
                   user_only |-> user_only, service_paths |-> spaths,
                   recursive |-> recursive, fs |-> fs,
                   result |-> GetServices(tool, out, user_only, spaths, recursive, fs)]
    /\ pc' = "returned"
    /\ UNCHANGED <<ret, services, current_selection, last_refresh, initial_load, now, term,
                   logs, scroll_pos, selection, trail, cfgVars>>
    /\ UNCHANGED edVars

CallGetServiceLogs ==
    /\ pc = "engine"
    /\ \E tool \in ToolStates, stdout \in ProbeJournals, lines \in ProbeLineCaps :
         probe' = [fn |-> "get_service_logs", tool |-> tool, stdout |-> stdout,
                   lines |-> lines, result |-> GetServiceLogs(tool, stdout, lines)]
    /\ pc' = "returned"
    /\ UNCHANGED <<ret, services, current_selection, last_refresh, initial_load, now, term,
                   logs, scroll_pos, selection, trail, cfgVars>>
    /\ UNCHANGED edVars

CallGetServiceStatus ==
    /\ pc = "engine"
    /\ \E tool \in ToolStates, stdout \in StatusReports :
         probe' = [fn |-> "get_service_status", tool |-> tool, stdout |-> stdout,
                   result |-> GetServiceStatus(1, tool, stdout, None)]
    /\ pc' = "returned"
    /\ UNCHANGED <<ret, services, current_selection, last_refresh, initial_load, now, term,
                   logs, scroll_pos, selection, trail, cfgVars>>
    /\ UNCHANGED edVars

\* refresh_services called twice on a TUI of its own: first in one of the
\* dashboard's worlds, then in any world, listings that repeat a name included.
ProbeRunning == {{}, {1}}
ProbeWorlds ==
    {[tool |-> t, out |-> <<>>, running |-> {}, fs |-> <<>>] : t \in {"fail", "missing"}}
    \cup {[tool |-> "ok", out |-> o, running |-> r, fs |-> f] :
             o \in ListingOutputs, r \in ProbeRunning, f \in DashFs}

\* A refresh that appends to the list it finds instead of starting from [].
CallRefreshServicesAppends ==
    /\ pc \in {"engine", "refreshed"}
    /\ \E w \in (IF pc = "engine" THEN Worlds ELSE ProbeWorlds) :
         LET all_services == GetServices(w.tool, w.out, config.user_services_only,
                                         service_paths, config.recursive_search, w.fs)
             r == RefreshServices(w, config, service_paths)
         IN /\ probe' = [fn |-> "refresh_services", world |-> w, before |-> services,
                         all_services |-> all_services, result |-> r,
                         first |-> IF pc = "engine" THEN w ELSE probe.world]
            /\ IF r.raised # "none"
               THEN UNCHANGED <<services, last_refresh>>
               ELSE services' = services \o r.val /\ last_refresh' = now
    /\ pc' = IF pc = "engine" THEN "refreshed" ELSE "returned"
    /\ UNCHANGED <<ret, current_selection, initial_load, now, term, logs, scroll_pos,
                   selection, trail, cfgVars>>
    /\ UNCHANGED edVars

CallRefreshServices ==
    /\ pc \in {"engine", "refreshed"}
    /\ \E w \in (IF pc = "engine" THEN Worlds ELSE ProbeWorlds) :
         LET all_services == GetServices(w.tool, w.out, config.user_services_only,
                                         service_paths, config.recursive_search, w.fs)
             r == RefreshServices(w, config, service_paths)
         IN /\ probe' = [fn |-> "refresh_services", world |-> w, before |-> services,
                         all_services |-> all_services, result |-> r,
                         first |-> IF pc = "engine" THEN w ELSE probe.world]
            /\ IF r.raised # "none"
               THEN UNCHANGED <<services, last_refresh>>
               ELSE services' = r.val /\ last_refresh' = now
    /\ pc' = IF pc = "engine" THEN "refreshed" ELSE "returned"
    /\ UNCHANGED <<ret, current_selection, initial_load, now, term, logs, scroll_pos,
                   selection, trail, cfgVars>>
    /\ UNCHANGED edVars

\* The callers of the text prompt, each called once: what the user types is
\* any sequence of at most MaxKeys keys closed by Enter or ESC.
PromptKeySeqs ==
    {Append(body, end) : body \in SeqsUpTo({"x", "5", " ", "BACKSPACE"}, MaxKeys),
                         end \in {"ENTER", "ESC"}}

\* Key a of edit_service_directories.
CallAddDirectory ==
    /\ pc = "engine"
    /\ \E keys \in PromptKeySeqs, dirs \in {<<>>, DefaultDirectories, << <<"x">> >>} :
         LET new_dir == GetTextInput(keys, term)
         IN /\ directories' = AddDirectory(dirs, new_dir)
            /\ probe' = [fn |-> "add_directory", keys |-> keys, text |-> new_dir,
                         before |-> dirs, shown |-> "none"]
    /\ pc' = "returned"
    /\ UNCHANGED <<ret, services, current_selection, last_refresh, initial_load, now, term,
                   logs, scroll_pos, selection, trail, cfgVars, dir_selection>>

CallEditRefreshInterval ==
    /\ pc = "engine"
    /\ \E keys \in PromptKeySeqs, outcome \in save_outcomes :
         LET new_interval == GetTextInput(keys, term)
             edit == EditRefreshInterval(config, disk, new_interval, outcome)
         IN /\ config' = edit.config
            /\ disk' = edit.disk
            /\ probe' = [fn |-> "edit_refresh_interval", keys |-> keys,
                         text |-> new_interval, before |-> config, file |-> disk,
                         saved |-> edit.saved, shown |-> edit.shown]
    /\ pc' = "returned"
    /\ UNCHANGED <<ret, services, current_selection, last_refresh, initial_load, now, term,
                   logs, scroll_pos, selection, trail, service_paths, save_outcomes,
                   edVars>>

\* Config() on a config file found in one of these states, and then one call
\* of set_refresh_interval.
ConfigFiles ==
    {NoFile, Malformed, Unreadable, JsonFile(<<>>), JsonFile([refresh_interval |-> 0]),
     JsonFile([user_services_only |-> FALSE, service_directories |-> << <<"tmp", "x">> >>]),
     JsonFile(default_config),
     JsonValue("null"), JsonValue("number"), JsonValue("array"), JsonValue("empty_array")}

CallLoadConfig ==
    /\ pc = "engine"
    /\ \E file \in ConfigFiles :
         LET r == LoadConfigCall(file)
         IN /\ probe' = [fn |-> "load_config", file |-> file, result |-> r]
            /\ disk' = file
            /\ IF r.raised # "none" THEN pc' = "returned" /\ config' = config
                                    ELSE pc' = "loaded" /\ config' = r.val
    /\ UNCHANGED <<ret, services, current_selection, last_refresh, initial_load, now, term,
                   logs, scroll_pos, selection, trail, service_paths, save_outcomes,
                   edVars>>

CallSetRefreshInterval ==
    /\ pc \in {"engine", "loaded"}
    /\ \E interval \in {-1, 0, 1, 5}, outcome \in save_outcomes :
         LET set == SetRefreshInterval(config, disk, interval, outcome)
         IN /\ probe' = [fn |-> "set_refresh_interval", interval |-> interval,
                         before |-> config, file |-> disk, outcome |-> outcome,
                         result |-> set.ok]
            /\ config' = set.config
            /\ disk' = set.disk
    /\ pc' = "returned"
    /\ UNCHANGED <<ret, services, current_selection, last_refresh, initial_load, now, term,
                   logs, scroll_pos, selection, trail, service_paths, save_outcomes,
                   edVars>>

\* Enter on one of the two boolean fields of the config screen.
CallEditConfigOption ==
    /\ pc = "engine"
    /\ \E sel \in {1, 2}, outcome \in save_outcomes :
         LET edit == EditConfigOption(sel, config, disk, outcome)
         IN /\ config' = edit.config
            /\ disk' = edit.disk
            /\ probe' = [fn |-> "edit_config_option", selection |-> sel,
                         before |-> config, file |-> disk, saved |-> edit.saved,
                         shown |-> edit.shown]
    /\ pc' = "returned"
    /\ UNCHANGED <<ret, services, current_selection, last_refresh, initial_load, now, term,
                   logs, scroll_pos, selection, trail, service_paths, save_outcomes,
                   edVars>>

\* Enter or ESC in the directory editor, on a working copy of its own.
CallCommitDirectories ==
    /\ pc = "engine"
    /\ \E dirs \in {<<>>, DefaultDirectories, << <<"x">> >>}, outcome \in save_outcomes :
         LET commit == CommitDirectories(config, disk, dirs, outcome)
         IN /\ config' = commit.config
            /\ disk' = commit.disk
            /\ probe' = [fn |-> "commit_directories", before |-> config, file |-> disk,
                         saved |-> commit.saved, shown |-> commit.shown]
    /\ pc' = "returned"
    /\ UNCHANGED <<ret, services, current_selection, last_refresh, initial_load, now, term,
                   logs, scroll_pos, selection, trail, service_paths, save_outcomes,
                   edVars>>

\* format_uptime called twice with the same timestamp, the second call not
\* earlier than the first.  The timestamps: well-formed ones, with and without
\* the "; ... ago" that follows in a status report, and texts strptime refuses.
Stamp(day, second) == <<Tok("wd", 0), Tok("date", day), Tok("time", second), Tok("tz", 0)>>

SinceTexts ==
    {None, Some(<<>>), Some(<<Tok("word", 0)>>), Some(<<Tok("semi", 0), Tok("word", 0)>>),
     Some(<<Tok("wd", 0), Tok("date", 1), Tok("time", 0)>>),
     Some(<<Tok("wd", 0), Tok("date", 1), Tok("time", 0), Tok("tz", 1)>>),
     Some(Stamp(1, 90) \o <<Tok("semi", 0), Tok("word", 1), Tok("word", 2)>>)}
    \cup {Some(Stamp(day, second)) : day \in 1..2, second \in {0, 90, 3700, 86399}}

Moments == {day * 86400 + second : day \in 1..3, second \in {0, 60, 3700, 86399}}

CallFormatUptime ==
    /\ pc \in {"engine", "formatted"}
    /\ \E s \in SinceTexts, t \in Moments :
         LET since_str == IF pc = "engine" THEN s ELSE probe.since_str
             result == FormatUptime(since_str, t)
             this == [at |-> t, result |-> result]
         IN /\ pc = "formatted" => (s = probe.since_str /\ t >= probe.at)
            /\ probe' = [fn |-> "format_uptime", since_str |-> since_str, at |-> t,
                         result |-> result,
                         earlier |-> IF pc = "engine" THEN this
                                     ELSE [at |-> probe.at, result |-> probe.result]]
    /\ pc' = IF pc = "engine" THEN "formatted" ELSE "returned"
    /\ UNCHANGED <<ret, services, current_selection, last_refresh, initial_load, now, term,
                   logs, scroll_pos, selection, trail, cfgVars, edVars>>

\* ------------------------------------------------------------ the command line
\* An invocation is a command line: command "service" with an action, an
\* optional unit name and the --system flag; command "config" with a config
\* action and its arguments; "none", no argument at all; or "usage", a command
\* line parse_args rejects (it exits with status 2).  The exit status is 0 when
\* main returns, 1 after sys.exit(1) and after an exception nobody catches.
\* The unit NumUnits + 1 is a name no unit has: systemctl status prints
\* nothing for it and exits non-zero.
HandleServiceCommand(inv, w, cfg, spaths) ==
    CASE inv.action = "list" ->
            LET listed == GetServices(w.tool, w.out, ~inv.system, spaths,
                                      cfg.recursive_search, w.fs)
            IN IF listed.raised # "none" THEN 1 ELSE 0
      [] inv.action \in Actions ->
            IF ~inv.service.some THEN 1
            ELSE LET c == ControlService(w.tool)
                 IN IF c.raised # "none" THEN 1 ELSE IF c.val.success THEN 0 ELSE 1
      [] OTHER ->
            IF ~inv.service.some THEN 1
            ELSE LET known == inv.service.v \in Names
                     tool == IF w.tool = "missing" THEN "missing"
                             ELSE IF known THEN "ok" ELSE "fail"
                     stdout == IF known /\ w.tool = "ok"
                               THEN StatusOutput(inv.service.v, w.running) ELSE <<>>
                     status == GetServiceStatus(inv.service.v, tool, stdout,
                                                FindServiceFile(inv.service.v, spaths,
                                                                cfg.recursive_search, w.fs))
                 IN IF status.some THEN 0 ELSE 1

\* The exit status with the configuration and the file it leaves.
HandleConfigCommand(inv, cfg, file, outcome) ==
    LET dirs == cfg.service_directories
        store(new) == LET saved == SaveConfig(new, file, outcome)
                      IN [exit |-> IF saved.ok THEN 0 ELSE 1, config |-> new,
                          disk |-> saved.disk]
        same(code) == [exit |-> code, config |-> cfg, disk |-> file]
    IN CASE inv.config_action = "add-dir" ->
               IF inv.directory \notin SeqToSet(dirs)
               THEN store([cfg EXCEPT !.service_directories = Append(dirs, inv.directory)])
               ELSE same(0)
         [] inv.config_action = "remove-dir" ->
               IF inv.directory \in SeqToSet(dirs)
               THEN LET i == CHOOSE k \in 1..Len(dirs) :
                                 dirs[k] = inv.directory
                                 /\ \A j \in 1..(k - 1) : dirs[j] # inv.directory
                    IN store([cfg EXCEPT !.service_directories = Pop(dirs, i - 1)])
               ELSE same(0)
         [] inv.config_action = "set" /\ inv.option = "recursive" ->
               store([cfg EXCEPT !.recursive_search = (inv.value = <<"true">>)])
         [] inv.config_action = "set" /\ inv.option = "user-only" ->
               store([cfg EXCEPT !.user_services_only = (inv.value = <<"true">>)])
         [] inv.config_action = "set" /\ inv.option = "refresh-interval" ->
               LET interval == ParseInt(inv.value)
               IN IF interval.raised # "none" THEN same(1)
                  ELSE LET set == SetRefreshInterval(cfg, file, interval.val, outcome)
                       IN [exit |-> IF set.ok THEN 0 ELSE 1, config |-> set.config,
                           disk |-> set.disk]
         [] inv.config_action = "reset" -> store(default_config)
         [] OTHER -> same(0)

ServiceInvocations ==
    {[cmd |-> "service", action |-> a, service |-> sv, system |-> sy] :
        a \in Actions \cup {"list", "status"},
        sv \in {None, Some(1), Some(NumUnits + 1)}, sy \in BOOLEAN}

ConfigInvocations ==
    {[cmd |-> "config", config_action |-> a] : a \in {"none", "show", "reset"}}
    \cup {[cmd |-> "config", config_action |-> a, directory |-> d] :
             a \in {"add-dir", "remove-dir"}, d \in {DefaultDirectories[1], <<"tmp", "x">>}}
    \cup {[cmd |-> "config", config_action |-> "set", option |-> o, value |-> v] :
             o \in {"recursive", "user-only", "refresh-interval"},
             v \in {<<"true">>, <<"false">>, <<"x">>, <<"5">>, <<"0">>}}

\* handle_service_command called with the action and arguments of a service
\* invocation.
CallHandleServiceCommand ==
    /\ pc = "engine"
    /\ \E inv \in ServiceInvocations, w \in Worlds :
         probe' = [fn |-> "handle_service_command", inv |-> inv, world |-> w,
                   exit |-> HandleServiceCommand(inv, w, config, service_paths)]
    /\ pc' = "returned"
    /\ UNCHANGED <<ret, services, current_selection, last_refresh, initial_load, now, term,
                   logs, scroll_pos, selection, trail, cfgVars, edVars>>

\* main().  parse_args fills the namespace from the sub-command first and then
\* from the parser's own optional positionals "action" and "service", which
\* match nothing after a sub-command and store their default: a "service"
\* command line reaches the dispatch with args.action = None, and main starts
\* the dashboard for it.  `ran` is what main called; a dashboard session ends
\* when the user quits and main returns.
CallMain ==
    /\ pc = "engine"
    /\ \E inv \in ServiceInvocations \cup ConfigInvocations
                   \cup {[cmd |-> "none"], [cmd |-> "usage"]},
          w \in Worlds, outcome \in save_outcomes :
         LET args == IF inv.cmd = "service"
                     THEN [inv EXCEPT !.action = "None", !.service = None]
                     ELSE IF inv.cmd = "none" THEN [cmd |-> "none", action |-> "None"]
                     ELSE inv
             same(ran, code) == [ran |-> ran, exit |-> code, config |-> config,
                                 disk |-> disk]
             done == CASE args.cmd = "usage" -> same("usage", 2)
                       [] args.cmd = "config" ->
                            [ran |-> "handle_config_command"]
                              @@ HandleConfigCommand(args, config, disk, outcome)
                       [] args.cmd = "service" \/ args.action # "None" ->
                            IF args.action = "None" THEN same("run_tui", 0)
                            ELSE same("handle_service_command",
                                      HandleServiceCommand(args, w, config, service_paths))
                       [] OTHER -> same("run_tui", 0)
         IN /\ probe' = [fn |-> "main", inv |-> inv, world |-> w, before |-> config,
                         file |-> disk, ran |-> done.ran, exit |-> done.exit]
            /\ config' = done.config
            /\ disk' = done.disk
    /\ pc' = "returned"
    /\ UNCHANGED <<ret, services, current_selection, last_refresh, initial_load, now, term,
                   logs, scroll_pos, selection, trail, service_paths, save_outcomes,
                   edVars>>

\* ------------------------------------------------------------ the Config object
\* A Config object in memory: its dictionary `config`, the list held by
\* default_config['service_directories'] (`defaults`), and whether the
\* dictionary's 'service_directories' is that same list (`shared`):
\* default_config.copy() is a shallow copy, so the copy holds the list itself
\* until update() or an assignment puts another list in its place.
AddServiceDirectory(obj, file, directory, outcome) ==
    LET dirs == obj.config.service_directories
    IN IF directory \notin SeqToSet(dirs)
       THEN LET new == [obj EXCEPT !.config.service_directories = Append(dirs, directory),
                                   !.defaults = IF obj.shared THEN Append(dirs, directory)
                                                ELSE @]
                saved == SaveConfig(new.config, file, outcome)
            IN [ok |-> saved.ok, obj |-> new, disk |-> saved.disk, saving |-> TRUE]
       ELSE [ok |-> TRUE, obj |-> obj, disk |-> file, saving |-> FALSE]

RemoveServiceDirectory(obj, file, directory, outcome) ==
    LET dirs == obj.config.service_directories
    IN IF directory \in SeqToSet(dirs)
       THEN LET i == CHOOSE k \in 1..Len(dirs) :
                        dirs[k] = directory /\ \A j \in 1..(k - 1) : dirs[j] # directory
                new == [obj EXCEPT !.config.service_directories = Pop(dirs, i - 1),
                                   !.defaults = IF obj.shared THEN Pop(dirs, i - 1) ELSE @]
                saved == SaveConfig(new.config, file, outcome)
            IN [ok |-> saved.ok, obj |-> new, disk |-> saved.disk, saving |-> TRUE]
       ELSE [ok |-> TRUE, obj |-> obj, disk |-> file, saving |-> FALSE]

\* self.config = self.default_config.copy()
ResetToDefaults(obj, file, outcome) ==
    LET new == [obj EXCEPT !.config = [default_config EXCEPT
                                         !.service_directories = obj.defaults],
                           !.shared = TRUE]
        saved == SaveConfig(new.config, file, outcome)
    IN [ok |-> saved.ok, obj |-> new, disk |-> saved.disk, saving |-> TRUE]

\* One call of a Config method.
ConfigOp(call, obj, file, outcome) ==
    LET set(new) == LET saved == SaveConfig(new, file, outcome)
                    IN [ok |-> saved.ok, obj |-> [obj EXCEPT !.config = new],
                        disk |-> saved.disk, saving |-> TRUE]
    IN CASE call.op = "add_service_directory" ->
               AddServiceDirectory(obj, file, call.directory, outcome)
         [] call.op = "remove_service_directory" ->
               RemoveServiceDirectory(obj, file, call.directory, outcome)
         [] call.op = "set_recursive_search" ->
               set([obj.config EXCEPT !.recursive_search = call.value])
         [] call.op = "set_user_services_only" ->
               set([obj.config EXCEPT !.user_services_only = call.value])
         [] call.op = "set_refresh_interval" ->
               LET r == SetRefreshInterval(obj.config, file, call.interval, outcome)
               IN [ok |-> r.ok, obj |-> [obj EXCEPT !.config = r.config], disk |-> r.disk,
                   saving |-> call.interval > 0]
         [] OTHER -> ResetToDefaults(obj, file, outcome)

\* Config(): load_config on the file found.  `persisted` is the configuration
\* of the last save that succeeded, or the one loaded when none has yet.
CallConfig ==
    /\ pc = "engine"
    /\ \E file \in {NoFile, Malformed, JsonFile([refresh_interval |-> 0]),
                     JsonFile([user_services_only |-> FALSE,
                               service_directories |-> << <<"tmp", "x">> >>])} :
         /\ disk' = file
         /\ config' = LoadConfig(file)
         /\ probe' = [fn |-> "Config", file |-> file, calls |-> 0,
                      defaults |-> DefaultDirectories,
                      shared |-> ~(file.kind = "json"
                                   /\ "service_directories" \in DOMAIN file.obj),
                      persisted |-> LoadConfig(file)]
    /\ pc' = "config"
    /\ UNCHANGED <<ret, services, current_selection, last_refresh, initial_load, now, term,
                   logs, scroll_pos, selection, trail, service_paths, save_outcomes,
                   edVars>>

CallConfigOp ==
    /\ pc = "config"
    /\ probe.calls < MaxOps
    /\ \E call \in {[op |-> o, directory |-> d] :
                        o \in {"add_service_directory", "remove_service_directory"},
                        d \in {DefaultDirectories[1], <<"tmp", "x">>}}
                   \cup {[op |-> o, value |-> FALSE] :
                           o \in {"set_recursive_search", "set_user_services_only"}}
                   \cup {[op |-> "set_refresh_interval", interval |-> n] : n \in {0, 7}}
                   \cup {[op |-> "reset_to_defaults"]},
          outcome \in save_outcomes :
         LET done == ConfigOp(call, [config |-> config, defaults |-> probe.defaults,
                                     shared |-> probe.shared], disk, outcome)
         IN /\ config' = done.obj.config
            /\ disk' = done.disk
            /\ probe' = [fn |-> call.op, file |-> probe.file, calls |-> probe.calls + 1,
                         defaults |-> done.obj.defaults, shared |-> done.obj.shared,
                         persisted |-> IF done.saving /\ done.ok THEN done.obj.config
                                       ELSE probe.persisted,
                         before |-> config, ok |-> done.ok, saving |-> done.saving]
    /\ pc' = "config"
    /\ UNCHANGED <<ret, services, current_selection, last_refresh, initial_load, now, term,
                   logs, scroll_pos, selection, trail, service_paths, save_outcomes,
                   edVars>>

EngineNext ==
    \/ CallConfig
    \/ CallConfigOp
    \/ CallMain
    \/ CallHandleServiceCommand
    \/ CallFormatUptime
    \/ CallEditConfigOption
    \/ CallCommitDirectories
    \/ CallLoadConfig
    \/ CallSetRefreshInterval
    \/ CallAddDirectory
    \/ CallEditRefreshInterval
    \/ CallGetServices
    \/ CallGetServiceLogs
    \/ CallGetServiceStatus
    \/ CallRefreshServices

Engine == EngineInit /\ [][EngineNext]_vars

\* ===================================================================== claims
HasEv(t, e) == \E i \in 1..Len(t) : t[i].e = e
LastEv(t) == t[Len(t)]
RefreshDue == now - last_refresh > config.refresh_interval

\* C1: in the dashboard the selection cursor is 0 whenever the unit list is
\* empty, and an up or down key never leaves it outside [0, len(services) - 1].
C1_CursorInRange ==
    /\ services = <<>> => current_selection = 0
    /\ (pc = "top" /\ trail \in {<<Ev("key_up", 0)>>, <<Ev("key_down", 0)>>}
                   /\ services # <<>>)
         => current_selection \in 0..(Len(services) - 1)

\* C2: whenever a refresh has replaced the unit list by a shorter one, the
\* cursor has been clamped to max(0, new_len - 1) by the time the controller
\* blocks for the next key, on every terminal size.
C2_ClampedAtKeyRead ==
    pc = "getch" => current_selection <= Max(0, Len(services) - 1)

\* C3 as stated: every return from a modal sub-screen (status popup, log
\* viewer, settings screen) to Ready is followed by a full refresh before the
\* next key is read: the closing dispatch has refreshed, or the head of the
\* loop is about to.
C3_EveryModalReturnRefreshes ==
    (pc = "top" /\ (HasEv(trail, "popup_closed") \/ HasEv(trail, "logs_closed")
                    \/ HasEv(trail, "settings_closed")))
      => (HasEv(trail, "refresh") \/ RefreshDue)

\* C3, amended: of the modal sub-screens only the settings screen is followed
\* by a refresh.  When show_config_screen returns, refresh_services runs at
\* once (and the session is back at the head of the loop with last_refresh
\* set, unless the listing raised); closing the status popup or the log viewer
\* runs no refresh; and a config key whose "too small" dialog raised
\* curses.error runs none either.
C3_OnlySettingsReturnRefreshes ==
    /\ HasEv(trail, "settings_closed") => LastEv(trail).e \in {"refresh", "raised"}
    /\ (pc = "top" /\ HasEv(trail, "settings_closed"))
         => (LastEv(trail).e = "refresh" /\ last_refresh = now)
    /\ (HasEv(trail, "popup_closed") \/ HasEv(trail, "logs_closed"))
         => ~HasEv(trail, "refresh")
    /\ (pc = "top" /\ trail # <<>> /\ trail[1].e = "key_config")
         => (HasEv(trail, "refresh") <=> HasEv(trail, "settings_closed"))

C3_Witness ==
    /\ pc = "top"
    /\ trail = <<Ev("key_config", 0), Ev("settings_closed", 0), Ev("refresh", 0)>>
    /\ services # <<>>

\* C4 as stated: after a start, stop or restart key on a selected unit the
\* executor has been invoked, a success or error message has been shown, and a
\* full refresh runs before the next key read, whether the action succeeded
\* or failed.
C4_ActionAlwaysRefreshes ==
    (pc = "top" /\ trail # <<>> /\ trail[1].e = "key_action"
       /\ (HasEv(trail, "exec_ok") \/ HasEv(trail, "exec_failed")
           \/ HasEv(trail, "exec_raised")))
      => /\ HasEv(trail, "brief") \/ HasEv(trail, "message")
         /\ HasEv(trail, "refresh") \/ RefreshDue

\* C4, amended: a start, stop or restart key pressed in Ready on a valid
\* selected unit first draws a progress line; unless that raises (a terminal
\* too small for it), the executor is invoked on the selected unit.  When the
\* action succeeds a brief success message is shown and refresh_services runs
\* before the loop continues (if the listing raises there, an error dialog is
\* attempted instead).  When the action fails or the tool is missing, an error
\* dialog is attempted and no refresh is run: the unit list and last_refresh
\* are unchanged.
C4_RefreshOnlyAfterSuccess ==
    [][ (pc = "getch" /\ pc' # "getch" /\ trail' # <<>> /\ trail'[1].e = "key_action"
           /\ HasSelected(services, current_selection) /\ current_selection >= 0)
        => LET unit == services[current_selection + 1].name
               key == Ev("key_action", 0)
               shown == {Ev("message", 0), Ev("curses_error", 0)}
           IN \/ /\ TRUE \in ProgressRaises(term)
                 /\ Len(trail') = 2 /\ trail'[2] \in shown
                 /\ UNCHANGED <<services, last_refresh>>
              \/ /\ trail' = <<key, Ev("exec_ok", unit), Ev("brief", 0), Ev("refresh", 0)>>
                 /\ pc' = "top"
                 /\ last_refresh' = now
              \/ /\ Len(trail') = 5
                 /\ SubSeq(trail', 1, 4)
                      = <<key, Ev("exec_ok", unit), Ev("brief", 0), Ev("raised", 0)>>
                 /\ trail'[5] \in shown
                 /\ UNCHANGED <<services, last_refresh>>
              \/ /\ Len(trail') = 3
                 /\ trail'[2] \in {Ev("exec_failed", unit), Ev("exec_raised", unit)}
                 /\ trail'[3] \in shown
                 /\ UNCHANGED <<services, last_refresh>>
      ]_vars

C4_Witness ==
    /\ pc = "top"
    /\ current_selection = 1
    /\ Len(trail) = 4
    /\ trail[2] = Ev("exec_ok", 2)
    /\ trail[4] = Ev("refresh", 0)

\* C5: the session ends only through an explicit quit: no failure of an
\* external tool invocation during a refresh or a key dispatch ends it.
C5_NoToolFailureEndsSession == pc # "crashed"

\* --------------------------------------------------------- claims, by call
Returned(fn) == pc = "returned" /\ probe.fn = fn

\* C6 as stated: get_service_logs for a unit whose log retrieval succeeds with
\* no log output returns exactly one line, the sentinel, never an empty
\* sequence.
C6_NoOutputGivesSentinel ==
    (Returned("get_service_logs") /\ probe.tool = "ok" /\ probe.stdout = <<>>)
      => probe.result = Return(NoLogsSentinel)

\* C6, amended: when the retrieval succeeds, get_service_logs returns the
\* lines the tool printed (the last `lines` of them) and never adds the
\* sentinel: with no output it returns the empty sequence.  The sentinel line
\* is returned only when the tool exits non-zero.
C6_NoOutputGivesEmpty ==
    Returned("get_service_logs")
      => /\ probe.tool = "ok"
              => probe.result = Return(LastLines(probe.stdout, probe.lines))
         /\ (probe.tool = "ok" /\ probe.stdout = <<>>) => probe.result = Return(<<>>)
         /\ (probe.result = Return(NoLogsSentinel)) <=> (probe.tool = "fail")

C6_Witness ==
    /\ Returned("get_service_logs")
    /\ probe.tool = "ok"
    /\ probe.stdout = <<>>
    /\ probe.result = Return(<<>>)

\* C7: for every kind of failure of the log retrieval (non-zero exit, log
\* tool absent) get_service_logs returns exactly the sentinel line and raises
\* nothing.
C7_EveryFailureGivesSentinel ==
    (Returned("get_service_logs") /\ probe.tool # "ok")
      => probe.result = Return(NoLogsSentinel)

\* C8: for any listing, duplicates included, the sequence get_services
\* returns is in ascending order of name and has no duplicates.
C8_SortedWithoutDuplicates ==
    (Returned("get_services") /\ probe.result.raised = "none")
      => LET r == probe.result.val
         IN /\ \A i \in 1..(Len(r) - 1) : r[i] <= r[i + 1]
            /\ \A i, j \in 1..Len(r) : i # j => r[i] # r[j]

\* C9: when the listing invocation fails (non-zero exit, or tool missing)
\* get_services returns the empty sequence and raises nothing.
C9_ListingFailureGivesEmpty ==
    (Returned("get_services") /\ probe.tool # "ok") => probe.result = Return(<<>>)

\* The line of a report that states the unit's activity: its first line with
\* the Active: label (0 when there is none), and the text after the first
\* "since" of a line up to the next ';' or the end of the line.
ActiveLineOf(report) ==
    LET idx == {i \in 1..Len(report) : \E k \in 1..Len(report[i]) : report[i][k] = "Active:"}
    IN IF idx = {} THEN 0 ELSE CHOOSE i \in idx : \A j \in idx : i <= j

RunningIn(line) ==
    \E k \in 1..(Len(line) - 1) : line[k] = "active" /\ line[k + 1] = "(running)"

TextAfterSince(line) ==
    LET marks == {k \in 1..Len(line) : line[k] = "since"}
    IN IF marks = {} THEN <<>>
       ELSE LET m == CHOOSE k \in marks : \A j \in marks : k <= j
                rest == SubSeq(line, m + 1, Len(line))
                n == CHOOSE n \in 0..Len(rest) :
                         /\ \A k \in 1..n : rest[k] # ";"
                         /\ n = Len(rest) \/ rest[n + 1] = ";"
            IN SubSeq(rest, 1, n)

\* C10: for every status report, get_service_status sets active to true iff
\* the report's Active: line contains the phrase "active (running)" (a line
\* with "active (exited)" gives false), and when that line has a "since"
\* marker followed by text, since is the text between the marker and the next
\* ';' or the end of the line.
C10_ActiveLineDecides ==
    (Returned("get_service_status") /\ probe.result.some)
      => LET report == probe.stdout
             a == ActiveLineOf(report)
             info == probe.result.v
         IN IF a = 0 THEN ~info.active
            ELSE /\ info.active <=> RunningIn(report[a])
                 /\ TextAfterSince(report[a]) # <<>>
                      => info.since = Some(TextAfterSince(report[a]))

\* The same statement for the reports in which one line only carries the
\* Active: label; it holds, scenario A included.
OneActiveLine(report) ==
    Cardinality({i \in 1..Len(report) :
                    \E k \in 1..Len(report[i]) : report[i][k] = "Active:"}) <= 1

ScenarioA ==
    <<"Active:", "active", "(running)", "since", "Mon", "2024-01-01", "10:00:00",
      "UTC", ";", "2h", "ago">>

SingleActiveLineDecides ==
    (Returned("get_service_status") /\ probe.result.some /\ OneActiveLine(probe.stdout))
      => /\ C10_ActiveLineDecides
         /\ probe.stdout = <<ScenarioA>>
              => /\ probe.result.v.active
                 /\ probe.result.v.since
                      = Some(<<"Mon", "2024-01-01", "10:00:00", "UTC">>)

\* The label a line of a report is parsed under (the first of the four that
\* occurs in it), and the first line of a report parsed under a label (0 when
\* there is none).
Labels == <<"Active:", "Loaded:", "Main PID:", "Memory:">>

LabelOf(line) ==
    LET found == {n \in 1..Len(Labels) : \E k \in 1..Len(line) : line[k] = Labels[n]}
    IN IF found = {} THEN "none" ELSE Labels[CHOOSE n \in found : \A m \in found : n <= m]

FirstLabelled(report, label) ==
    LET idx == {i \in 1..Len(report) : LabelOf(report[i]) = label}
    IN IF idx = {} THEN 0 ELSE CHOOSE i \in idx : \A j \in idx : i <= j

\* C11: in get_service_status the first matching line wins for every field:
\* active, since, enabled, main_pid and memory have the values the first line
\* with their label gives them, and later lines with that label do not change
\* them.
C11_FirstMatchWins ==
    (Returned("get_service_status") /\ probe.result.some)
      => LET report == probe.stdout
             info == probe.result.v
             From(label) == ParseLine(InitialStatus(info.name, info.file_path),
                                      report[FirstLabelled(report, label)])
         IN /\ FirstLabelled(report, "Active:") # 0
                 => /\ info.active = From("Active:").active
                    /\ info.since = From("Active:").since
            /\ FirstLabelled(report, "Loaded:") # 0
                 => info.enabled = From("Loaded:").enabled
            /\ FirstLabelled(report, "Main PID:") # 0
                 => info.main_pid = From("Main PID:").main_pid
            /\ FirstLabelled(report, "Memory:") # 0
                 => info.memory = From("Memory:").memory

\* C12: get_service_status returns None whenever the lookup fails: the tool
\* is absent, the tool exits non-zero, or it prints no report; it never
\* returns a record of default fields for a unit that does not exist.
C12_AbsentWhenLookupFails ==
    (Returned("get_service_status") /\ (probe.tool # "ok" \/ probe.stdout = <<>>))
      => probe.result = None

\* C13: after every refresh the unit list holds exactly one status record for
\* each unit name the listing of that refresh returned, in listing order, and
\* every record is the one built in this refresh, none carried over from the
\* list before it.
C13_OneFreshRecordPerName ==
    (Returned("refresh_services") /\ probe.result.raised = "none")
      => LET listed == probe.all_services.val
         IN /\ Len(services) = Len(listed)
            /\ \A i \in 1..Len(services) :
                 /\ services[i].name = listed[i]
                 /\ services[i].active <=> (listed[i] \in probe.world.running)
            /\ \A i \in 1..Len(listed) :
                 Cardinality({j \in 1..Len(services) : services[j].name = listed[i]}) = 1

\* The same without the count of records per name: the list is rebuilt from
\* the listing, entry by entry; it holds.
RebuiltFromListing ==
    (Returned("refresh_services") /\ probe.result.raised = "none")
      => LET listed == probe.all_services.val
         IN /\ Len(services) = Len(listed)
            /\ \A i \in 1..Len(services) :
                 /\ services[i].name = listed[i]
                 /\ services[i].active <=> (listed[i] \in probe.world.running)

\* C14: at every rendered frame of the main table the selected unit lies
\* within the rendered window, the first min(available_rows, len(units)) units:
\* the cursor is less than the number of rendered rows.
C14_SelectionInWindow ==
    (pc = "getch" /\ HasEv(trail, "draw") /\ services # <<>>)
      => current_selection < Min(MaxServices(term), Len(services))

\* C15: in every iteration of the Ready loop, if the time elapsed since
\* last_refresh exceeds the configured refresh interval, a full refresh (the
\* units listed again, the status of each read again) completes before that
\* iteration's render and before its blocking key read: an iteration that
\* starts with the interval exceeded renders and reads a key only after the
\* refresh, and renders the refreshed list.
C15_PeriodicRefreshBeforeRender ==
    [][ (pc = "top" /\ RefreshDue /\ (pc' = "getch" \/ HasEv(trail', "draw")
                                      \/ HasEv(trail', "too_small")))
        => /\ pc' = "getch"
           /\ Len(trail') = 2
           /\ trail'[1] = Ev("refresh", 0)
           /\ trail'[2].e \in {"draw", "too_small"}
           /\ last_refresh' = now
           /\ \E w \in Worlds :
                RefreshServices(w, config, service_paths) = Return(services')
           /\ current_selection' = Frame(services', current_selection, term).sel
      ]_vars

C15_Witness ==
    /\ pc = "getch"
    /\ now = 1
    /\ last_refresh = 1
    /\ Len(trail) = 2
    /\ trail[1] = Ev("refresh", 0)
    /\ trail[2].e = "draw"
    /\ services # <<>>

\* C20: in the directory editor additions and deletions change only the
\* working copy: the configured directory list, in memory and on disk, is
\* unchanged until the editor is exited, and then becomes the working copy.
\* Starting from ["/etc/systemd/system"], adding "/tmp/x" and then deleting the
\* entry at index 0 leaves ["/tmp/x"], which the exit commits.
InEditor(p) == p \in {"dir_editor", "prompt_dir"}
EtcSystem == <<"etc", "systemd", "system">>
TmpX == <<"tmp", "x">>

Modal == {"popup", "logs", "settings", "message", "dir_editor", "prompt_dir",
          "prompt_interval"}
Refreshes(t) == {i \in 1..Len(t) : t[i].e = "refresh"}

C16_NoRefreshInSubScreens ==
    [][ /\ (pc \in Modal /\ pc' \in Modal) => UNCHANGED <<services, last_refresh>>
        /\ (services' # services \/ last_refresh' # last_refresh
              \/ (trail' # trail /\ Refreshes(trail') # {}))
             => /\ Cardinality(Refreshes(trail')) = 1
                /\ pc' \in {"top", "getch"}
                /\ \/ pc \in {"start", "top", "getch"}
                   \/ /\ pc \in {"settings", "message"}
                      /\ \E i \in Refreshes(trail') : trail'[i - 1].e = "settings_closed"
      ]_vars

C16_Witness ==
    /\ pc \in {"dir_editor", "prompt_dir"}
    /\ RefreshDue
    /\ services # <<>>

\* C17: the loading flag is true only during the first refresh of a session:
\* it is set at the start, cleared when the first refresh has returned, never
\* set again, and every later refresh (periodic, refresh key, after an action,
\* after the settings screen) runs with the flag cleared.
C17_LoadingOnlyAtStart ==
    [][ /\ initial_load => pc \in {"start", "crashed"}
        /\ initial_load' => (initial_load /\ pc' \in {"start", "crashed"})
        /\ (pc = "start" /\ pc' = "top") => (initial_load /\ ~initial_load')
        /\ (pc # "start" /\ trail' # trail /\ Refreshes(trail') # {}) => ~initial_load
      ]_vars

C17_Witness ==
    /\ pc = "getch"
    /\ ~initial_load
    /\ trail # <<>>
    /\ trail[1].e = "refresh"
    /\ now > 0

\* C18: in the log viewer the scroll offset starts at
\* max(0, total_lines - viewport_height) and after any sequence of line-step,
\* page-step, home and end keys stays within
\* [0, max(0, total_lines - viewport_height)].
Tail0(total_lines, viewport_height) == Max(0, total_lines - viewport_height)

C18_ScrollWithinBounds ==
    [][ /\ (pc = "getch" /\ pc' = "logs")
             => scroll_pos' = Tail0(Len(logs'), term.h - 6)
        /\ pc' = "logs" => scroll_pos' \in 0..Tail0(Len(logs'), term.h - 6)
      ]_vars

\* The viewer scrolled up from the tail of a text longer than the viewport.
C18_Witness ==
    /\ pc = "logs"
    /\ Len(logs) > term.h - 6 + 1
    /\ scroll_pos = 1

\* C19: the log viewer fetches the logs exactly once, on entry, with the cap
\* of 100 lines, and never again while it is open; from entry to the exit on
\* the quit key it leaves the unit list, the selection cursor, last_refresh
\* and the configuration (in memory and on disk) unchanged.
Fetches(t) == {i \in 1..Len(t) : t[i].e = "fetch_logs"}

C19_FetchOnceNoSideEffects ==
    [][ /\ (pc = "getch" /\ pc' = "logs")
             => /\ Cardinality(Fetches(trail')) = 1
                /\ \E tool \in ToolStates, stdout \in JournalOutputs :
                     GetServiceLogs(tool, stdout, 100) = Return(logs')
                /\ UNCHANGED <<services, current_selection, last_refresh, config, disk>>
        /\ pc = "logs"
             => /\ pc' \in {"logs", "top"}
                /\ pc' = "logs" => logs' = logs
                /\ Cardinality(Fetches(trail')) = 1
                /\ UNCHANGED <<services, current_selection, last_refresh, config, disk>>
      ]_vars

\* The viewer, open on a text of several lines, after a key has moved it.
C19_Witness ==
    /\ pc = "logs"
    /\ Cardinality(Fetches(trail)) = 1
    /\ Len(logs) > 1
    /\ scroll_pos # Max(0, Len(logs) - (term.h - 6))

\* C21: in the settings screen the read-only field, the config file location,
\* is the last listed field; after any sequence of up, down, enter and reset
\* keys the cursor is on one of the fields before it, and every step that
\* edits (opens the directory editor or the interval prompt, or toggles a
\* boolean) is taken with the cursor on the field it edits, never on the
\* read-only one.
ReadOnlyField == "Config File"

C21_ReadOnlyFieldNeverSelected ==
    [][ /\ pc' \in {"settings", "dir_editor", "prompt_dir", "prompt_interval"}
             => /\ selection' \in 0..(Len(config_options) - 2)
                /\ config_options[selection' + 1] # ReadOnlyField
                /\ \A i \in 1..Len(config_options) :
                     config_options[i] = ReadOnlyField => i > selection' + 1
        /\ (pc = "settings" /\ pc' = "dir_editor")
             => config_options[selection + 1] = "Service Directories"
        /\ (pc = "settings" /\ pc' = "prompt_interval")
             => config_options[selection + 1] = "Refresh Interval"
        /\ (pc = "settings" /\ config'.recursive_search # config.recursive_search
              /\ config' # default_config)
             => config_options[selection + 1] = "Recursive Search"
        /\ (pc = "settings" /\ config'.user_services_only # config.user_services_only
              /\ config' # default_config)
             => config_options[selection + 1] = "User Services Only"
      ]_vars

\* The cursor on the last editable field, with a boolean already toggled.
C21_Witness ==
    /\ pc = "settings"
    /\ selection = Len(config_options) - 2
    /\ ~config.user_services_only

\* C22: the text prompt returns the empty text whenever it is cancelled,
\* whatever was typed before the cancel key, or committed with nothing but
\* blanks typed; and both callers treat the empty text as a no-op: the
\* directory editor's working list, and the refresh interval with the rest of
\* the configuration and the file, are as before, and nothing is shown.
Cancelled(keys) == keys[Len(keys)] = "ESC"
OnlyBlanksTyped(keys) == \A i \in 1..(Len(keys) - 1) : keys[i] \in {" ", "BACKSPACE"}
PromptCaller == {"add_directory", "edit_refresh_interval"}

C22_EmptyTextIsNoOp ==
    (pc = "returned" /\ probe.fn \in PromptCaller)
      => /\ (Cancelled(probe.keys) \/ OnlyBlanksTyped(probe.keys)) => probe.text = <<>>
         /\ probe.text = <<>>
              => /\ probe.shown = "none"
                 /\ probe.fn = "add_directory" => directories = probe.before
                 /\ probe.fn = "edit_refresh_interval"
                      => (config = probe.before /\ disk = probe.file)

\* An interval typed and then cancelled.
C22_Witness ==
    /\ Returned("edit_refresh_interval")
    /\ probe.keys = <<"5", " ", "ESC">>
    /\ config.refresh_interval = DefaultRefreshInterval
    /\ probe.shown = "none"

\* C23: set_refresh_interval rejects every non-positive value: it returns
\* failure and leaves the refresh interval, with the rest of the configuration
\* in memory and the file on disk, as they were; load_config, in contrast,
\* merges a stored refresh_interval of 0 as it is, so that
\* get_refresh_interval then returns 0 (scenario B).
ZeroIntervalFile == JsonFile([refresh_interval |-> 0])

C23_SetterRejectsLoadAccepts ==
    /\ (Returned("set_refresh_interval") /\ probe.interval <= 0)
         => /\ ~probe.result
            /\ config = probe.before
            /\ disk = probe.file
    /\ (pc = "loaded" /\ probe.file = ZeroIntervalFile)
         => /\ probe.result = Return(config)
            /\ GetRefreshInterval(config) = 0
            /\ \A k \in ConfigKeys \ {"refresh_interval"} : config[k] = default_config[k]

\* Scenario B: the file with interval 0 has been loaded, and the setter has
\* then refused the same value.
C23_Witness ==
    /\ Returned("set_refresh_interval")
    /\ probe.interval = 0
    /\ probe.file = ZeroIntervalFile
    /\ GetRefreshInterval(config) = 0

\* C24: load_config never raises: every key missing from the stored file
\* takes its built-in default, and every malformed file (invalid JSON, or
\* valid JSON that is not an object) yields the full defaults.
C24_LoadNeverRaises ==
    probe.fn = "load_config"
      => /\ probe.result.raised = "none"
         /\ probe.file.kind = "json"
              => \A k \in ConfigKeys :
                   probe.result.val[k] = IF k \in DOMAIN probe.file.obj
                                         THEN probe.file.obj[k] ELSE default_config[k]
         /\ probe.file.kind \in {"malformed", "json_value"}
              => probe.result = Return(default_config)

\* C25: when the save fails during a setting change made from the dashboard
\* (a boolean toggle, a refresh-interval edit, the exit of the directory
\* editor), the failure is shown to the user as a failure message; a success
\* message is never shown for a change whose save failed.
SettingChange == {"edit_config_option", "edit_refresh_interval", "commit_directories"}

C25_SaveFailureSurfaced ==
    (pc = "returned" /\ probe.fn \in SettingChange /\ probe.saved = "failed")
      => probe.shown = "message"

\* A timestamp in the recognized format (weekday, date, time, a zone name the
\* parser knows), the moment it names, and the time elapsed since it at a
\* call, split into whole days, hours and minutes:
\* elapsed = 86400 d + 3600 h + 60 m + s with 0 <= h < 24, 0 <= m < 60,
\* 0 <= s < 60.
InFormat(text) ==
    /\ Len(text) = 4
    /\ <<text[1].k, text[2].k, text[3].k, text[4].k>> = <<"wd", "date", "time", "tz">>
    /\ text[4].n = 0
Instant(text) == 86400 * text[2].n + text[3].n
WholeDays(e) == e \div 86400
WholeHours(e) == (e - 86400 * WholeDays(e)) \div 3600
WholeMinutes(e) == (e - 86400 * WholeDays(e) - 3600 * WholeHours(e)) \div 60
Rendered(e) ==
    IF WholeDays(e) > 0
    THEN <<Tok("d", WholeDays(e)), Tok("h", WholeHours(e)), Tok("m", WholeMinutes(e))>>
    ELSE IF WholeDays(e) = 0 /\ WholeHours(e) > 0
    THEN <<Tok("h", WholeHours(e)), Tok("m", WholeMinutes(e))>>
    ELSE <<Tok("m", WholeMinutes(e))>>

\* C26: format_uptime returns "N/A" for an absent timestamp, returns an
\* unparsable non-empty timestamp unchanged, and for every timestamp in the
\* recognized format returns "{d}d {h}h {m}m" when days > 0, "{h}h {m}m" when
\* days = 0 and hours > 0, and "{m}m" otherwise, d, h and m being the whole
\* days, hours and minutes of the elapsed time.
C26_UptimeTemplates ==
    probe.fn = "format_uptime"
      => LET s == probe.since_str
         IN /\ ~s.some => probe.result = <<Tok("N/A", 0)>>
            /\ (s.some /\ s.v # <<>> /\ ~InFormat(s.v)
                  /\ \A i \in 1..Len(s.v) : s.v[i].k # "semi")
                 => probe.result = s.v
            /\ (s.some /\ InFormat(s.v))
                 => probe.result = Rendered(probe.at - Instant(s.v))

\* The same for the timestamps that are not later than the moment of the
\* call; it holds.
PastUptimeTemplates ==
    (probe.fn = "format_uptime" /\ probe.since_str.some /\ InFormat(probe.since_str.v)
       /\ Instant(probe.since_str.v) > probe.at)
    \/ C26_UptimeTemplates

\* The duration a rendered text shows, in minutes.
RECURSIVE Shown(_)
Shown(text) ==
    IF text = <<>> THEN 0
    ELSE Shown(Tail(text)) + Head(text).n * (CASE Head(text).k = "d" -> 1440
                                               [] Head(text).k = "h" -> 60
                                               [] OTHER -> 1)

\* C27: for every timestamp in the recognized format, past or future, the
\* duration format_uptime renders does not decrease as the wall clock
\* advances: a later call never shows a smaller duration than an earlier call
\* for the same timestamp.
C27_UptimeMonotonic ==
    (Returned("format_uptime") /\ probe.since_str.some /\ InFormat(probe.since_str.v))
      => Shown(probe.result) >= Shown(probe.earlier.result)

\* The same for the timestamps not later than the first call; it holds.
PastUptimeMonotonic ==
    (Returned("format_uptime") /\ probe.since_str.some /\ InFormat(probe.since_str.v)
       /\ Instant(probe.since_str.v) <= probe.earlier.at)
      => Shown(probe.result) >= Shown(probe.earlier.result)

\* C28: two refreshes run in succession with no change of external state
\* (same listing output, same status reports, same configuration) yield two
\* identical unit lists, and the second refresh leaves the selection cursor
\* where it was.
C28_RefreshIdempotent ==
    [][ (pc = "refreshed" /\ pc' = "returned" /\ probe'.world = probe.world
           /\ config' = config /\ service_paths' = service_paths)
        => /\ probe'.result = probe.result
           /\ services' = services
           /\ current_selection' = current_selection
      ]_vars

\* Two refreshes in the same world, which lists two units, with the cursor on
\* the second.
C28_Witness ==
    /\ Returned("refresh_services")
    /\ probe.first = probe.world
    /\ Len(services) = 2
    /\ current_selection = 1

\* C29: the command-line front-end exits with code 1 exactly in these cases: a
\* start, stop, restart or status command with no service name; an action the
\* tool reports as failed; a status command for a unit that is not found; a
\* config command with an invalid value.  Every other invocation exits with
\* code 0.
NoServiceName(inv) ==
    inv.cmd = "service" /\ inv.action # "list" /\ ~inv.service.some
ActionFailed(inv, w) ==
    inv.cmd = "service" /\ inv.action \in Actions /\ inv.service.some /\ w.tool = "fail"
UnitNotFound(inv) ==
    inv.cmd = "service" /\ inv.action = "status" /\ inv.service.some
      /\ inv.service.v \notin Names
InvalidValue(inv) ==
    /\ inv.cmd = "config"
    /\ inv.config_action = "set"
    /\ IF inv.option = "refresh-interval" THEN inv.value # <<"5">>
       ELSE inv.value \notin {<<"true">>, <<"false">>}
ExitOneCase(inv, w) ==
    NoServiceName(inv) \/ ActionFailed(inv, w) \/ UnitNotFound(inv) \/ InvalidValue(inv)

C29_ExitCodes ==
    (Returned("main") \/ Returned("handle_service_command"))
      => probe.exit = IF ExitOneCase(probe.inv, probe.world) THEN 1 ELSE 0

\* What does hold.  The status handler, with systemctl present, exits with
\* code 0 for every unit name, found or not.
StatusAlwaysExitsZero ==
    (Returned("handle_service_command") /\ probe.inv.action = "status"
       /\ probe.inv.service.some /\ probe.world.tool # "missing")
      => probe.exit = 0

\* main never reaches the service handler: every service command line starts
\* the dashboard.
ServiceCommandStartsDashboard ==
    (Returned("main") /\ probe.inv.cmd = "service") => probe.ran = "run_tui"

\* The exit codes of the start, stop and restart handler are the claimed ones
\* while systemctl is present.
ActionExitCodes ==
    (Returned("handle_service_command") /\ probe.inv.action \in Actions
       /\ probe.world.tool # "missing")
      => probe.exit = IF ExitOneCase(probe.inv, probe.world) THEN 1 ELSE 0
\* C30: with the scope restricted to the configured directories, get_services
\* keeps a reported unit name iff find_service_file resolves it to a path under
\* one of the configured directories; find_service_file returns the match from
\* the first directory, in configured order, that contains the unit (in its
\* subtree when the search is recursive, as a direct child otherwise), or
\* nothing when no directory does; with unrestricted scope every reported name
\* that ends in the unit suffix is kept.
Contains(path, n, recursive, fs) ==
    \E k \in 1..Len(fs) :
        fs[k].name = n /\ IF recursive THEN IsPrefix(path, fs[k].dir) ELSE fs[k].dir = path

Containing(n, paths, recursive, fs) ==
    {i \in 1..Len(paths) : Contains(paths[i], n, recursive, fs)}

FirstDirectoryWins ==
    Returned("get_services")
      => \A n \in Names :
            LET found == FindServiceFile(n, probe.service_paths, probe.recursive, probe.fs)
                dirs == Containing(n, probe.service_paths, probe.recursive, probe.fs)
            IN IF dirs = {} THEN found = None
               ELSE LET first == probe.service_paths[CHOOSE i \in dirs :
                                                        \A j \in dirs : i <= j]
                    IN /\ found.some
                       /\ found.v.name = n
                       /\ \E k \in 1..Len(probe.fs) : probe.fs[k] = found.v
                       /\ IF probe.recursive THEN IsPrefix(first, found.v.dir)
                          ELSE found.v.dir = first

KeptIffResolved ==
    (Returned("get_services") /\ probe.tool = "ok")
      => \A n \in 0..NumUnits :
            LET found == FindServiceFile(n, probe.service_paths, probe.recursive, probe.fs)
                under == found.some
                         /\ \E i \in 1..Len(probe.service_paths) :
                                IsPrefix(probe.service_paths[i], found.v.dir)
            IN n \in SeqToSet(probe.result.val)
                 <=> /\ n \in SeqToSet(probe.out)
                     /\ n # 0
                     /\ probe.user_only => under

C30_ScopeFilter == FirstDirectoryWins /\ KeptIffResolved

\* What does hold: the filter is as claimed unless the relative directory "."
\* is one of the configured directories.
KeptIffResolvedAbsolute ==
    (Returned("get_services") /\ <<".">> \notin SeqToSet(probe.service_paths))
      => KeptIffResolved
\* C31: after the directory editor has committed a changed directory list, or
\* the settings were reset to the defaults, the refresh that follows the return
\* from the config screen resolves the unit files and filters the inventory
\* against the directories configured now, not those configured when the
\* session started.
RefreshAfterSettings ==
    pc = "settings" /\ pc' = "top" /\ LastEv(trail').e = "refresh"

C31_RefreshUsesNewDirectories ==
    [][RefreshAfterSettings
         => \E w \in Worlds :
               RefreshServices(w, config, config.service_directories) = Return(services')
      ]_vars

\* What does hold: the refresh uses the directories read when the controller
\* was constructed, and nothing assigns them afterwards.
RefreshUsesStartDirectories ==
    [][RefreshAfterSettings
         => \E w \in Worlds : RefreshServices(w, config, service_paths) = Return(services')
      ]_vars

ServicePathsFrozen == [][service_paths' = service_paths]_vars
\* C32: whenever a start, stop, restart, status or logs key is dispatched, the
\* unit it operates on is the unit drawn highlighted in the last rendered table
\* frame; a key pressed while no row is highlighted (empty list, cursor outside
\* the drawn rows, cursor matching no row index) operates on no unit.
UnitKeyDispatched ==
    pc = "getch" /\ trail' # <<>> /\ trail'[1].e \in {"key_action", "key_logs", "key_space"}

\* The index of the row the frame before the key shows highlighted, -1 when
\* it shows none.
HighlightedRow ==
    IF HasEv(trail, "draw")
    THEN trail[CHOOSE i \in 1..Len(trail) : trail[i].e = "draw"].arg
    ELSE -1

\* The units a dispatch has called systemctl or journalctl for.
OperatedUnits(t) ==
    {t[i].arg : i \in {j \in 1..Len(t) :
                         t[j].e \in {"exec_ok", "exec_failed", "exec_raised", "fetch_logs"}}}

\* The status key has opened, or failed to open, the detail window of a unit.
StatusDetailCalled ==
    trail'[1].e = "key_space" /\ (pc' = "popup" \/ HasEv(trail', "curses_error"))

C32_OperatesOnHighlighted ==
    [][UnitKeyDispatched
         => IF HighlightedRow = -1
            THEN OperatedUnits(trail') = {} /\ ~StatusDetailCalled
            ELSE OperatedUnits(trail') \subseteq {services[HighlightedRow + 1].name}
      ]_vars

\* What does hold: a key dispatched while a row is highlighted operates on
\* that row's unit and on no other.
HighlightedUnitOperated ==
    [][(UnitKeyDispatched /\ HighlightedRow # -1)
         => /\ OperatedUnits(trail') \subseteq {services[HighlightedRow + 1].name}
            /\ HighlightedRow = current_selection
      ]_vars
\* C33: after any sequence of Config operations (add_service_directory,
\* remove_service_directory, the setters, reset_to_defaults), starting from a
\* configuration loaded with or without a stored file, reset_to_defaults
\* leaves the configuration equal to the built-in defaults: the three original
\* service directories, recursive search on, user-services-only on, refresh
\* interval 5.
AfterConfigOp(op) == pc = "config" /\ probe.fn = op

C33_ResetRestoresDefaults ==
    AfterConfigOp("reset_to_defaults") => config = default_config

\* What does hold: reset_to_defaults restores the three scalar settings, and
\* the directories too as long as no add or remove has changed the list the
\* built-in defaults hold.
ResetRestoresScalars ==
    AfterConfigOp("reset_to_defaults")
      => /\ config.recursive_search = default_config.recursive_search
         /\ config.user_services_only = default_config.user_services_only
         /\ config.refresh_interval = default_config.refresh_interval
         /\ probe.defaults = DefaultDirectories => config = default_config
\* C34: in the directory editor, after any sequence of up, down, add and
\* delete keys, the cursor is within [0, len(directories) - 1] whenever the
\* working list is non-empty, and a delete key removes exactly the entry drawn
\* highlighted and no other.
InDirEditor == pc \in {"dir_editor", "prompt_dir"}

DirCursorInRange ==
    (InDirEditor /\ directories # <<>>) => dir_selection \in 0..(Len(directories) - 1)

\* A step of the editor that has removed an entry.
EntryDeleted ==
    pc = "dir_editor" /\ pc' = "dir_editor" /\ Len(directories') = Len(directories) - 1

\* The entry the editor's frame shows highlighted is the one with i == selection.
DeleteRemovesHighlighted ==
    EntryDeleted
      => /\ dir_selection \in 0..(Len(directories) - 1)
         /\ directories' = [i \in 1..(Len(directories) - 1) |->
                               IF i <= dir_selection THEN directories[i]
                               ELSE directories[i + 1]]

C34_DirEditorCursor == []DirCursorInRange /\ [][DeleteRemovesHighlighted]_vars

\* What does hold: the cursor is never below -1 nor beyond the last entry,
\* and a delete with the cursor on an entry removes that entry.
DirCursorBounds ==
    InDirEditor => dir_selection \in -1..Max(0, Len(directories) - 1)

DeleteRemovesSelected ==
    [][(EntryDeleted /\ dir_selection >= 0) => DeleteRemovesHighlighted]_vars
\* C35: when a Config setter (set_recursive_search, set_user_services_only,
\* set_refresh_interval, add_service_directory, remove_service_directory,
\* reset_to_defaults) returns failure because the save failed, the
\* configuration in memory is unchanged, so the values the getters return
\* always equal the last configuration that was persisted successfully.
AfterConfigCall == pc = "config" /\ probe.calls > 0

C35_FailedSaveLeavesMemory ==
    /\ (AfterConfigCall /\ probe.saving /\ ~probe.ok) => config = probe.before
    /\ pc = "config" => config = probe.persisted

\* What does hold: a call that does not reach the save leaves the
\* configuration as it was, and a save that succeeds writes the whole
\* configuration in memory, changes of earlier failed calls included.
SavedOrUntouched ==
    AfterConfigCall
      => /\ ~probe.saving => config = probe.before
         /\ (probe.saving /\ probe.ok)
              => (config = probe.persisted /\ disk = JsonFile(config))
====
